---------------------------- MODULE Spec2Model ----------------------------
(***************************************************************************)
(* Model of the Markdown-table repair and chunking pipeline of the chat    *)
(* API route (src/app/api/chat/route.ts).                                  *)
(*                                                                         *)
(* route.ts holds two versions of the route.  The later one (lines 568 to  *)
(* 1127) emits every table as one "table" chunk (whole-table mode); the    *)
(* earlier one (lines 1 to 566) emits one "table-row" chunk per row        *)
(* (per-row mode).  Both are modelled; the variable mode says which one    *)
(* runs.                                                                   *)
(*                                                                         *)
(* A JavaScript string is a sequence of one-character strings, so that     *)
(* trim, split, join, includes and the separator regular expression are    *)
(* computed character by character, as the code computes them.             *)
(***************************************************************************)
EXTENDS Integers, Sequences, FiniteSets

(***************************************************************************)
(* Bounds of the model.                                                    *)
(***************************************************************************)
\* longest input text, in lines
MaxLines == 4
\* longest row given to normalizeTableRow on its own, in characters
MaxRowLen == 5
\* largest target column count given to normalizeTableRow on its own
MaxCols == 3

\* the longest text, in lines, of the look-ahead specification
MaxLookLines == 6

\* the longest chunk list given to the response stream
MaxChunks == 4

\* the number of calls of handleSubmit that are followed
MaxSubmits == 3

\* the longest response of the worker, in lines
MaxPostLines == 3

(***************************************************************************)
(* JavaScript string primitives.                                           *)
(***************************************************************************)
\* \s of a regular expression and the characters String.prototype.trim strips
isWhitespace(c) == c \in {" ", "\n", "\t", "\r"}

MinOf(S) == CHOOSE x \in S : \A y \in S : x <= y
MaxOf(S) == CHOOSE x \in S : \A y \in S : x >= y

\* String.prototype.trim
trim(s) ==
  LET keep == {k \in 1..Len(s) : ~isWhitespace(s[k])}
  IN  IF keep = {} THEN <<>> ELSE SubSeq(s, MinOf(keep), MaxOf(keep))

\* String.prototype.includes, for a one-character needle
includes(s, c) == \E k \in 1..Len(s) : s[k] = c

\* String.prototype.split, for a one-character separator: "" splits to [""]
RECURSIVE split(_, _)
split(s, c) ==
  LET at == {k \in 1..Len(s) : s[k] = c}
  IN  IF at = {} THEN <<s>>
      ELSE <<SubSeq(s, 1, MinOf(at) - 1)>>
             \o split(SubSeq(s, MinOf(at) + 1, Len(s)), c)

\* Array.prototype.join: [] joins to ""
RECURSIVE join(_, _)
join(parts, sep) ==
  IF parts = <<>> THEN <<>>
  ELSE IF Len(parts) = 1 THEN parts[1]
  ELSE parts[1] \o sep \o join(Tail(parts), sep)

\* Array.prototype.slice(start, end) with 0-based bounds; a negative bound
\* counts from the end
slice(a, start, end) ==
  LET n  == Len(a)
      s0 == IF start < 0 THEN (IF n + start < 0 THEN 0 ELSE n + start)
            ELSE (IF start > n THEN n ELSE start)
      e0 == IF end < 0 THEN (IF n + end < 0 THEN 0 ELSE n + end)
            ELSE (IF end > n THEN n ELSE end)
  IN  SubSeq(a, s0 + 1, e0)

\* Array.prototype.map(cell => cell.trim())
trimAll(cells) == [k \in 1..Len(cells) |-> trim(cells[k])]

\* Array(n).fill(x)
fill(n, x) == [k \in 1..n |-> x]

(***************************************************************************)
(* Whole-table version: row helpers (route.ts 672 to 823).                 *)
(***************************************************************************)
\* isTableRow: the trimmed line contains a pipe and is longer than 2
isTableRow(line) == includes(trim(line), "|") /\ Len(trim(line)) > 2

\* One step of the automaton of
\*   /^\|\s*:?-+:?\s*(\|\s*:?-+:?\s*)*\|?\s*$/
\* 0 start; 1 after the first pipe; 2 after a leading colon; 3 in hyphens;
\* 4 after a trailing colon; 5 in the blanks after a cell; 6 after a later
\* pipe (the next group's or the final one); 8 in blanks after such a pipe;
\* 9 no match
separatorStep(q, c) ==
  CASE q = 0 -> IF c = "|" THEN 1 ELSE 9
    [] q = 1 -> IF isWhitespace(c) THEN 1
                ELSE IF c = ":" THEN 2 ELSE IF c = "-" THEN 3 ELSE 9
    [] q = 2 -> IF c = "-" THEN 3 ELSE 9
    [] q = 3 -> IF c = "-" THEN 3 ELSE IF c = ":" THEN 4
                ELSE IF isWhitespace(c) THEN 5 ELSE IF c = "|" THEN 6 ELSE 9
    [] q \in {4, 5} -> IF isWhitespace(c) THEN 5 ELSE IF c = "|" THEN 6 ELSE 9
    [] q \in {6, 8} -> IF isWhitespace(c) THEN 8
                       ELSE IF c = ":" THEN 2 ELSE IF c = "-" THEN 3 ELSE 9
    [] OTHER -> 9

RECURSIVE separatorRun(_, _)
separatorRun(s, q) ==
  IF s = <<>> THEN q ELSE separatorRun(Tail(s), separatorStep(q, Head(s)))

\* separatorPattern.test(s)
separatorPattern(s) == separatorRun(s, 0) \in {3, 4, 5, 6, 8}

\* isTableSeparator
isTableSeparator(line) == separatorPattern(trim(line))

\* the first lines of countTableColumns and normalizeTableRow: trim, drop one
\* leading and one trailing pipe
stripPipes(row) ==
  LET cleaned == trim(row)
      c1 == IF cleaned # <<>> /\ Head(cleaned) = "|" THEN Tail(cleaned) ELSE cleaned
  IN  IF c1 # <<>> /\ c1[Len(c1)] = "|" THEN SubSeq(c1, 1, Len(c1) - 1) ELSE c1

\* cleaned.split("|").map((cell) => cell.trim())
splitCells(row) == trimAll(split(stripPipes(row), "|"))

\* the filter of countTableColumns: (cell) => cell.length > 0
nonEmpty(cell) == Len(cell) > 0

\* countTableColumns: the number of non-empty cells
countTableColumns(row) ==
  IF ~includes(row, "|") THEN 0
  ELSE Len(SelectSeq(splitCells(row), nonEmpty))

\* adjustCells with a fault: the extra cells are cut off instead of merged
adjustCellsTruncating(cells, targetColumns) ==
  IF Len(cells) > targetColumns
    THEN slice(cells, 0, targetColumns)
  ELSE IF Len(cells) < targetColumns
    THEN cells \o fill(targetColumns - Len(cells), <<>>)
  ELSE cells

\* adjustCells with a fault: one empty cell too few is added
adjustCellsShortPad(cells, targetColumns) ==
  IF Len(cells) > targetColumns
    THEN Append(slice(cells, 0, targetColumns - 1),
                join(slice(cells, targetColumns - 1, Len(cells)), <<" ", "|", " ">>))
  ELSE IF Len(cells) < targetColumns
    THEN cells \o fill(targetColumns - Len(cells) - 1, <<>>)
  ELSE cells

\* normalizeTableRow, "Adjust cell count": merge the extra cells into the last
\* column, or add empty cells
adjustCells(cells, targetColumns) ==
  IF Len(cells) > targetColumns
    THEN Append(slice(cells, 0, targetColumns - 1),
                join(slice(cells, targetColumns - 1, Len(cells)), <<" ", "|", " ">>))
  ELSE IF Len(cells) < targetColumns
    THEN cells \o fill(targetColumns - Len(cells), <<>>)
  ELSE cells

\* "| " + cells.join(" | ") + " |"
rebuildRow(cells) == <<"|", " ">> \o join(cells, <<" ", "|", " ">>) \o <<" ", "|">>

\* normalizeTableRow (the per-row version's normalizeTableRow, lines 133 to
\* 169, is the same function with more logging)
normalizeTableRow(row, targetColumns) ==
  IF ~includes(row, "|") THEN row
  ELSE rebuildRow(adjustCells(splitCells(row), targetColumns))

\* createTableSeparator
createTableSeparator(columns) == rebuildRow(fill(columns, <<"-", "-", "-">>))

\* the filter of normalizeTable: line.length > 0 && isTableRow(line)
validRow(line) == Len(line) > 0 /\ isTableRow(line)

\* the rows normalizeTable pushes to dataRows
dataRow(row) == ~isTableSeparator(row)

\* finalTable of normalizeTable: header, separator, remaining data rows
finalTable(dataRows, columnCount) ==
  LET normalizedRows ==
        [k \in 1..Len(dataRows) |-> normalizeTableRow(dataRows[k], columnCount)]
  IN  <<normalizedRows[1], createTableSeparator(columnCount)>> \o Tail(normalizedRows)

\* normalizeTable: "" when the block is rejected
normalizeTable(tableLines) ==
  LET validRows == SelectSeq(trimAll(tableLines), validRow)
      dataRows  == SelectSeq(validRows, dataRow)
  IN  IF Len(tableLines) = 0 THEN <<>>
      ELSE IF Len(validRows) = 0 THEN <<>>
      ELSE IF Len(dataRows) = 0 THEN <<>>
      ELSE IF countTableColumns(dataRows[1]) = 0 THEN <<>>
      ELSE join(finalTable(dataRows, countTableColumns(dataRows[1])), <<"\n">>)

(***************************************************************************)
(* Per-row version: table helpers (route.ts 113 to 273).                   *)
(***************************************************************************)
\* countColumns: the number of non-empty cells
countColumns(row) ==
  IF ~includes(row, "|") THEN 0
  ELSE Len(SelectSeq(splitCells(row), nonEmpty))

\* createSeparatorRow
createSeparatorRow(columns) == rebuildRow(fill(columns, <<"-", "-", "-">>))

\* /^[\s|:-]+$/.test(s)
onlyTableChars(s) ==
  Len(s) > 0 /\ \A k \in 1..Len(s) : isWhitespace(s[k]) \/ s[k] \in {"|", ":", "-"}

\* isSeparatorRow: the pattern, or only table characters
isSeparatorRow(line) == separatorPattern(trim(line)) \/ onlyTableChars(trim(line))

\* the filter of parseAndFixTable: line.length > 0 && line.includes("|")
pipeLine(line) == Len(line) > 0 /\ includes(line, "|")

\* the lines parseAndFixTable pushes to nonSeparatorLines
nonSeparatorLine(line) == ~isSeparatorRow(line)

\* the loop of parseAndFixTable: every normalized row, and the separator
\* after the first one
RECURSIVE fixRows(_, _, _)
fixRows(nonSeparatorLines, targetColumns, k) ==
  IF k >= Len(nonSeparatorLines) THEN <<>>
  ELSE <<normalizeTableRow(nonSeparatorLines[k + 1], targetColumns)>>
       \o (IF k = 0 THEN <<createSeparatorRow(targetColumns)>> ELSE <<>>)
       \o fixRows(nonSeparatorLines, targetColumns, k + 1)

\* Array.prototype.splice(start, deleteCount), the array left behind
splice(a, start, deleteCount) ==
  slice(a, 0, start) \o slice(a, start + deleteCount, Len(a))

\* parseAndFixTable: [] when the block is rejected
parseAndFixTable(tableText) ==
  LET tableLines        == SelectSeq(trimAll(split(tableText, "\n")), pipeLine)
      nonSeparatorLines == SelectSeq(tableLines, nonSeparatorLine)
  IN  IF Len(tableLines) = 0 THEN <<>>
      ELSE IF Len(nonSeparatorLines) = 0 THEN <<>>
      ELSE IF countColumns(nonSeparatorLines[1]) = 0 THEN <<>>
      ELSE splice(fixRows(nonSeparatorLines, countColumns(nonSeparatorLines[1]), 0), 1, 1)

(***************************************************************************)
(* The state: one call of createStreamableChunks, and one call of          *)
(* normalizeTableRow on its own.                                           *)
(***************************************************************************)
VARIABLES
  mode,               \* "wholeTable" (lines 851-970) or "perRow" (lines 304-387)
  text,               \* the argument of createStreamableChunks
  lines,              \* text.split("\n")
  i,                  \* the loop index, 0-based as in the code
  currentTextChunk,   \* whole-table version: the prose buffer
  currentTableLines,  \* whole-table version: the lines of the open table
  currentChunk,       \* per-row version: the prose buffer
  tableRows,          \* per-row version: the lines of the open table
  inTable,
  chunks,             \* the chunk list being built
  pc,                 \* "loop", "done"; "idle" when no call is modelled
  kind,               \* history: per line read, "table" (collected) or "text"
  calls,              \* history: the blocks normalized, with the results
  row,                \* the arguments and the result of normalizeTableRow
  targetColumns,
  rowResult,
  rowPc,              \* "call", "returned", "classify", "classified"; "idle"
                      \* when no call is modelled
  tableSeparator,     \* the result of isTableSeparator(row)
  separatorRow,       \* the result of isSeparatorRow(row)
  chunkIndex,         \* POST: the index of the next chunk to send
  enqueued,           \* the events given to controller.enqueue, in order
  streamState,        \* "readable", "closed", "cancelled"; "idle" before POST
                      \* creates the stream
  timer,              \* a setTimeout(sendNextChunk, delay) is pending
  timerFailed,        \* a timer callback threw
  page,               \* the version of the chat page: "app/page.tsx" or
                      \* "unnamed/part_002"; "none" when no page is modelled
  input,              \* the input field, as runs of equal characters
  charCount,          \* part_002: the character counter
  isLoading,
  messages,
  error,              \* "null" or the message
  requests,           \* history: the inputs sent to /api/chat
  submits,            \* history: the number of handleSubmit calls
  aiResponse,         \* POST: the text of the worker's response
  cleanedResponse,    \* POST: cleanResponseText(aiResponse)
  postPc,             \* POST: "received", "cleaned"; "idle" when POST is not
                      \* modelled
  wire,               \* read loop: the characters sent and not yet read
  wired,              \* read loop: the number of enqueued events sent
  buffer,             \* read loop: the local buffer
  accumulatedContent, \* read loop: the local accumulatedContent
  readPc,             \* read loop: "reading", "done"; "idle" when the read
                      \* loop is not modelled
  now,                \* chat requests: the value of Date.now()
  rendered,           \* chat requests: the input and isLoading of the last
                      \* render, which handleSubmit sees
  abortControllerRef, \* chat requests: 0 for null, or the number of the
                      \* request whose controller it holds
  reqs,               \* chat requests: the calls of handleSubmit past the
                      \* guard, each with its assistantMessageId, whether its
                      \* signal is aborted, and where it stands
  variant,            \* MermaidDiagram: "ref" (lines 1 to 199) or "svg" (201
                      \* onwards); "none" when it is not modelled
  code,               \* MermaidDiagram: the prop
  viewMode,
  mounted,
  mermaidLoaded,
  loadPc,             \* MermaidDiagram: loadMermaid is "loading", "loaded"
                      \* or "failed"
  diagramIsLoading,   \* MermaidDiagram: its state isLoading
  diagramError,       \* MermaidDiagram: its state error
  diagramSvg,         \* MermaidDiagram: the state diagramSvg; in the ref
                      \* variant the innerHTML of the container
  effectDeps,         \* MermaidDiagram: the dependencies the render effect
                      \* last ran with; <<>> before its first run
  renders             \* MermaidDiagram: the calls of the asynchronous render

vars == <<mode, text, lines, i, currentTextChunk, currentTableLines, currentChunk,
          tableRows, inTable, chunks, pc, kind, calls, row, targetColumns,
          rowResult, rowPc, tableSeparator, separatorRow, chunkIndex, enqueued,
          streamState, timer, timerFailed, page, input, charCount, isLoading,
          messages, error, requests, submits, aiResponse, cleanedResponse,
          postPc, wire, wired, buffer, accumulatedContent, readPc, now,
          rendered, abortControllerRef, reqs, variant, code, viewMode, mounted,
          mermaidLoaded, loadPc, diagramIsLoading, diagramError, diagramSvg,
          effectDeps, renders>>

chunkVars == <<mode, text, lines, i, currentTextChunk, currentTableLines,
               currentChunk, tableRows, inTable, chunks, pc, kind, calls>>

rowVars == <<row, targetColumns, rowResult, rowPc>>

classVars == <<tableSeparator, separatorRow>>

streamVars == <<chunkIndex, enqueued, streamState, timer, timerFailed>>

pageVars == <<page, input, charCount, isLoading, messages, error, requests, submits>>

postVars == <<aiResponse, cleanedResponse, postPc>>

readVars == <<wire, wired, buffer, accumulatedContent, readPc>>

chatVars == <<now, rendered, abortControllerRef, reqs>>

diagramVars == <<variant, code, viewMode, mounted, mermaidLoaded, loadPc,
                 diagramIsLoading, diagramError, diagramSvg, effectDeps,
                 renders>>

\* the variables of the parts added after POST
laterVars == <<readVars, chatVars, diagramVars>>

\* the variables of the parts added after the chat page
otherVars == <<postVars, laterVars>>

(***************************************************************************)
(* The inputs.                                                             *)
(***************************************************************************)
\* the lines input texts are made of: indented prose, a blank line, a two-cell row, a
\* row of hyphens without a leading pipe, a separator row, a row without a
\* usable cell, a three-cell row, a header with an empty cell, a two-character
\* pipe line
LinePool ==
  { <<" ", "x">>,
    <<>>,
    <<"a", "|", "b">>,
    <<"-", "|", "-">>,
    <<"|", "-", "|">>,
    <<"|", " ", "|">>,
    <<"1", "|", "2", "|", "3">>,
    <<"a", "|", "|", "b">>,
    <<"c", "|">> }

Texts == UNION {[1..n -> LinePool] : n \in 0..MaxLines}

\* the characters rows given to normalizeTableRow on its own are made of
RowAlphabet == {"|", "a", " ", "-"}

Rows == UNION {[1..n -> RowAlphabet] : n \in 0..MaxRowLen}

(***************************************************************************)
(* createStreamableChunks, whole-table version (route.ts 851 to 970).      *)
(* tableCount only feeds the log lines and is left out.                    *)
(***************************************************************************)
\* currentTextChunk += (currentTextChunk ? "\n" : "") + line
appendLine(chunk, line) ==
  chunk \o (IF chunk # <<>> THEN <<"\n">> ELSE <<>>) \o line

\* flushText with a fault: the buffer is pushed whatever it holds
flushTextAlways(list, chunk) ==
  Append(list, [type |-> "text", content |-> trim(chunk)])

\* if (currentTextChunk.trim()) chunks.push({type: "text", content: trimmed})
flushText(list, chunk) ==
  IF trim(chunk) # <<>>
    THEN Append(list, [type |-> "text", content |-> trim(chunk)])
    ELSE list

\* textAfterTable with a fault: the line that ended the table is swallowed
textAfterTableDropping(chunk, ln) == <<>>

\* after a table: if (trimmedLine) currentTextChunk = line
textAfterTable(chunk, ln) == IF trim(ln) # <<>> THEN ln ELSE chunk

\* if (normalizedTable.trim()) chunks.push({type: "table", content: ...});
\* otherwise the block is skipped
pushTable(list, normalizedTable) ==
  IF trim(normalizedTable) # <<>>
    THEN Append(list, [type |-> "table", content |-> normalizedTable])
    ELSE list

\* the look-ahead loop: for (j = i + 1; j < Math.min(i + 5, lines.length); j++)
RECURSIVE lookAhead(_, _, _)
lookAhead(ls, j, stop) ==
  IF j >= stop THEN FALSE
  ELSE IF isTableRow(trim(ls[j + 1])) THEN TRUE
  ELSE IF Len(trim(ls[j + 1])) > 0 THEN FALSE
  ELSE lookAhead(ls, j + 1, stop)

\* isActualTable with a fault: the look-ahead stops one line early
isActualTableShort(ls, k) ==
  lookAhead(ls, k + 1, IF k + 4 < Len(ls) THEN k + 4 ELSE Len(ls))

\* isActualTable with a fault: the look-ahead reads one line further
isActualTableLong(ls, k) ==
  lookAhead(ls, k + 1, IF k + 6 < Len(ls) THEN k + 6 ELSE Len(ls))

isActualTable(ls, k) ==
  lookAhead(ls, k + 1, IF k + 5 < Len(ls) THEN k + 5 ELSE Len(ls))

line == lines[i + 1]
trimmedLine == trim(line)

\* the loop condition with a fault: the last line is never read
InLoopStopsEarly(m) == pc = "loop" /\ mode = m /\ i + 1 < Len(lines)

\* the loop condition: i < lines.length
InLoop(m) == pc = "loop" /\ mode = m /\ i < Len(lines)

\* !inTable && isTableRow(trimmedLine), and the look-ahead finds a table row
TableStart ==
  /\ InLoop("wholeTable")
  /\ ~inTable /\ isTableRow(trimmedLine) /\ isActualTable(lines, i)
  /\ chunks' = flushText(chunks, currentTextChunk)
  /\ currentTextChunk' = IF trim(currentTextChunk) # <<>> THEN <<>> ELSE currentTextChunk
  /\ inTable' = TRUE
  /\ currentTableLines' = <<line>>
  /\ kind' = Append(kind, "table")
  /\ i' = i + 1
  /\ UNCHANGED <<mode, text, lines, currentChunk, tableRows, pc, calls>>
  /\ UNCHANGED <<rowVars, classVars, streamVars, pageVars, otherVars>>

\* !inTable && isTableRow(trimmedLine), and the look-ahead finds none
FalseAlarm ==
  /\ InLoop("wholeTable")
  /\ ~inTable /\ isTableRow(trimmedLine) /\ ~isActualTable(lines, i)
  /\ currentTextChunk' = appendLine(currentTextChunk, line)
  /\ kind' = Append(kind, "text")
  /\ i' = i + 1
  /\ UNCHANGED <<mode, text, lines, currentTableLines, currentChunk, tableRows,
                 inTable, chunks, pc, calls>>
  /\ UNCHANGED <<rowVars, classVars, streamVars, pageVars, otherVars>>

\* TableContinue with a fault: the line is not pushed
TableContinueDropping ==
  /\ InLoop("wholeTable")
  /\ inTable /\ isTableRow(trimmedLine)
  /\ kind' = Append(kind, "table")
  /\ i' = i + 1
  /\ UNCHANGED <<mode, text, lines, currentTextChunk, currentTableLines,
                 currentChunk, tableRows, inTable, chunks, pc, calls>>
  /\ UNCHANGED <<rowVars, classVars, streamVars, pageVars, otherVars>>

\* inTable && isTableRow(trimmedLine)
TableContinue ==
  /\ InLoop("wholeTable")
  /\ inTable /\ isTableRow(trimmedLine)
  /\ currentTableLines' = Append(currentTableLines, line)
  /\ kind' = Append(kind, "table")
  /\ i' = i + 1
  /\ UNCHANGED <<mode, text, lines, currentTextChunk, currentChunk, tableRows,
                 inTable, chunks, pc, calls>>
  /\ UNCHANGED <<rowVars, classVars, streamVars, pageVars, otherVars>>

\* inTable && !isTableRow(trimmedLine): the table is normalized and pushed (or
\* skipped), and the line starts the next prose buffer when it is not blank
TableEnd ==
  /\ InLoop("wholeTable")
  /\ inTable /\ ~isTableRow(trimmedLine)
  /\ chunks' = pushTable(chunks, normalizeTable(currentTableLines))
  /\ calls' = Append(calls, [input  |-> currentTableLines,
                             output |-> normalizeTable(currentTableLines)])
  /\ inTable' = FALSE
  /\ currentTableLines' = <<>>
  /\ currentTextChunk' = textAfterTable(currentTextChunk, line)
  /\ kind' = Append(kind, "text")
  /\ i' = i + 1
  /\ UNCHANGED <<mode, text, lines, currentChunk, tableRows, pc>>
  /\ UNCHANGED <<rowVars, classVars, streamVars, pageVars, otherVars>>

\* !inTable, no table row.  (The last else of the loop, "skipping empty line
\* while in table", cannot be reached: the two branches before it cover inTable.)
TextLine ==
  /\ InLoop("wholeTable")
  /\ ~inTable /\ ~isTableRow(trimmedLine)
  /\ currentTextChunk' = appendLine(currentTextChunk, line)
  /\ kind' = Append(kind, "text")
  /\ i' = i + 1
  /\ UNCHANGED <<mode, text, lines, currentTableLines, currentChunk, tableRows,
                 inTable, chunks, pc, calls>>
  /\ UNCHANGED <<rowVars, classVars, streamVars, pageVars, otherVars>>

\* after the loop: the remaining table, then the remaining text
Finish ==
  /\ pc = "loop" /\ mode = "wholeTable" /\ i = Len(lines)
  /\ chunks' = flushText(
                 IF inTable /\ Len(currentTableLines) > 0
                   THEN pushTable(chunks, normalizeTable(currentTableLines))
                   ELSE chunks,
                 currentTextChunk)
  /\ calls' = IF inTable /\ Len(currentTableLines) > 0
                THEN Append(calls, [input  |-> currentTableLines,
                                    output |-> normalizeTable(currentTableLines)])
                ELSE calls
  /\ pc' = "done"
  /\ UNCHANGED <<mode, text, lines, i, currentTextChunk, currentTableLines,
                 currentChunk, tableRows, inTable, kind>>
  /\ UNCHANGED <<rowVars, classVars, streamVars, pageVars, otherVars>>

(***************************************************************************)
(* createStreamableChunks, per-row version (route.ts 304 to 387).          *)
(***************************************************************************)
\* for each fixed row: chunks.push({type: "table-row", content: row})
pushRows(list, fixedTableRows) ==
  list \o [k \in 1..Len(fixedTableRows) |->
             [type |-> "table-row", content |-> fixedTableRows[k]]]

\* line.includes("|") && !inTable
RowTableStart ==
  /\ InLoop("perRow")
  /\ includes(line, "|") /\ ~inTable
  /\ chunks' = flushText(chunks, currentChunk)
  /\ currentChunk' = IF trim(currentChunk) # <<>> THEN <<>> ELSE currentChunk
  /\ inTable' = TRUE
  /\ tableRows' = <<line>>
  /\ kind' = Append(kind, "table")
  /\ i' = i + 1
  /\ UNCHANGED <<mode, text, lines, currentTextChunk, currentTableLines, pc, calls>>
  /\ UNCHANGED <<rowVars, classVars, streamVars, pageVars, otherVars>>

\* inTable && line.includes("|")
RowTableContinue ==
  /\ InLoop("perRow")
  /\ inTable /\ includes(line, "|")
  /\ tableRows' = Append(tableRows, line)
  /\ kind' = Append(kind, "table")
  /\ i' = i + 1
  /\ UNCHANGED <<mode, text, lines, currentTextChunk, currentTableLines,
                 currentChunk, inTable, chunks, pc, calls>>
  /\ UNCHANGED <<rowVars, classVars, streamVars, pageVars, otherVars>>

\* inTable && !line.includes("|")
RowTableEnd ==
  /\ InLoop("perRow")
  /\ inTable /\ ~includes(line, "|")
  /\ chunks' = pushRows(chunks, parseAndFixTable(join(tableRows, <<"\n">>)))
  /\ calls' = Append(calls, [input  |-> tableRows,
                             output |-> parseAndFixTable(join(tableRows, <<"\n">>))])
  /\ inTable' = FALSE
  /\ tableRows' = <<>>
  /\ currentChunk' = textAfterTable(currentChunk, line)
  /\ kind' = Append(kind, "text")
  /\ i' = i + 1
  /\ UNCHANGED <<mode, text, lines, currentTextChunk, currentTableLines, pc>>
  /\ UNCHANGED <<rowVars, classVars, streamVars, pageVars, otherVars>>

\* !inTable, no pipe
RowTextLine ==
  /\ InLoop("perRow")
  /\ ~inTable /\ ~includes(line, "|")
  /\ currentChunk' = appendLine(currentChunk, line)
  /\ kind' = Append(kind, "text")
  /\ i' = i + 1
  /\ UNCHANGED <<mode, text, lines, currentTextChunk, currentTableLines,
                 tableRows, inTable, chunks, pc, calls>>
  /\ UNCHANGED <<rowVars, classVars, streamVars, pageVars, otherVars>>

\* after the loop: the remaining table, then the remaining text
RowFinish ==
  /\ pc = "loop" /\ mode = "perRow" /\ i = Len(lines)
  /\ chunks' = flushText(
                 IF inTable /\ Len(tableRows) > 0
                   THEN pushRows(chunks, parseAndFixTable(join(tableRows, <<"\n">>)))
                   ELSE chunks,
                 currentChunk)
  /\ calls' = IF inTable /\ Len(tableRows) > 0
                THEN Append(calls, [input  |-> tableRows,
                                    output |-> parseAndFixTable(join(tableRows, <<"\n">>))])
                ELSE calls
  /\ pc' = "done"
  /\ UNCHANGED <<mode, text, lines, i, currentTextChunk, currentTableLines,
                 currentChunk, tableRows, inTable, kind>>
  /\ UNCHANGED <<rowVars, classVars, streamVars, pageVars, otherVars>>

(***************************************************************************)
(* One call of normalizeTableRow.                                          *)
(***************************************************************************)
NormalizeRow ==
  /\ rowPc = "call"
  /\ rowResult' = normalizeTableRow(row, targetColumns)
  /\ rowPc' = "returned"
  /\ UNCHANGED <<row, targetColumns>>
  /\ UNCHANGED <<chunkVars, classVars, streamVars, pageVars, otherVars>>

(***************************************************************************)
(* Specifications.                                                         *)
(***************************************************************************)
NoChunking ==
  /\ mode = "wholeTable" /\ text = <<>> /\ lines = <<>> /\ i = 0
  /\ currentTextChunk = <<>> /\ currentTableLines = <<>>
  /\ currentChunk = <<>> /\ tableRows = <<>>
  /\ inTable = FALSE /\ chunks = <<>> /\ pc = "idle"
  /\ kind = <<>> /\ calls = <<>>

NoRow ==
  /\ row = <<>> /\ targetColumns = 0 /\ rowResult = <<>> /\ rowPc = "idle"

NoClass ==
  /\ tableSeparator = FALSE /\ separatorRow = FALSE

NoStream ==
  /\ chunkIndex = 0 /\ enqueued = <<>> /\ streamState = "idle"
  /\ timer = FALSE /\ timerFailed = FALSE

NoPage ==
  /\ page = "none" /\ input = <<>> /\ charCount = 0 /\ isLoading = FALSE
  /\ messages = <<>> /\ error = "null" /\ requests = <<>> /\ submits = 0

NoPost ==
  /\ aiResponse = <<>> /\ cleanedResponse = <<>> /\ postPc = "idle"

NoRead ==
  /\ wire = <<>> /\ wired = 0 /\ buffer = <<>> /\ accumulatedContent = <<>>
  /\ readPc = "idle"

NoChat ==
  /\ now = 0 /\ rendered = [input |-> <<>>, isLoading |-> FALSE]
  /\ abortControllerRef = 0 /\ reqs = <<>>

NoDiagram ==
  /\ variant = "none" /\ code = <<>> /\ viewMode = "visual" /\ mounted = FALSE
  /\ mermaidLoaded = FALSE /\ loadPc = "loading"
  /\ diagramIsLoading = TRUE /\ diagramError = "null" /\ diagramSvg = <<>>
  /\ effectDeps = <<>> /\ renders = <<>>

NoLater == NoRead /\ NoChat /\ NoDiagram

NoOther == NoPost /\ NoLater

\* createStreamableChunks(text) is entered: text is any text of at most
\* MaxLines lines of LinePool
Init ==
  /\ mode \in {"wholeTable", "perRow"}
  /\ \E ls \in Texts : text = join(ls, <<"\n">>)
  /\ lines = split(text, "\n")
  /\ i = 0
  /\ currentTextChunk = <<>> /\ currentTableLines = <<>>
  /\ currentChunk = <<>> /\ tableRows = <<>>
  /\ inTable = FALSE /\ chunks = <<>> /\ pc = "loop"
  /\ kind = <<>> /\ calls = <<>>
  /\ NoRow /\ NoClass /\ NoStream /\ NoPage /\ NoOther

Next ==
  \/ TableStart \/ FalseAlarm \/ TableContinue \/ TableEnd \/ TextLine \/ Finish
  \/ RowTableStart \/ RowTableContinue \/ RowTableEnd \/ RowTextLine \/ RowFinish

Spec == Init /\ [][Next]_vars

\* normalizeTableRow(row, targetColumns) is called on any row of at most
\* MaxRowLen characters and any target of at most MaxCols columns
InitRow ==
  /\ row \in Rows
  /\ targetColumns \in 0..MaxCols
  /\ rowResult = <<>>
  /\ rowPc = "call"
  /\ NoChunking /\ NoClass /\ NoStream /\ NoPage /\ NoOther

NextRow == NormalizeRow

SpecRow == InitRow /\ [][NextRow]_vars

(***************************************************************************)
(* The two separator tests on their own: isTableSeparator of the           *)
(* whole-table version and isSeparatorRow of the per-row version, applied  *)
(* to the same line.                                                       *)
(***************************************************************************)
\* the characters the classified lines are made of
ClassifyAlphabet == {"|", "-", ":", " ", "a"}

ClassifyLines == UNION {[1..n -> ClassifyAlphabet] : n \in 0..MaxRowLen}

Classify ==
  /\ rowPc = "classify"
  /\ tableSeparator' = isTableSeparator(row)
  /\ separatorRow' = isSeparatorRow(row)
  /\ rowPc' = "classified"
  /\ UNCHANGED <<row, targetColumns, rowResult>>
  /\ UNCHANGED <<chunkVars, streamVars, pageVars, otherVars>>

\* both tests are called on any line of at most MaxRowLen characters
InitClassify ==
  /\ row \in ClassifyLines
  /\ targetColumns = 0 /\ rowResult = <<>>
  /\ rowPc = "classify"
  /\ NoChunking /\ NoClass /\ NoStream /\ NoPage /\ NoOther

NextClassify == Classify

SpecClassify == InitClassify /\ [][NextClassify]_vars

(***************************************************************************)
(* The whole-table version on longer texts of fewer kinds of lines, so     *)
(* that the look-ahead of four lines is exercised to its end.              *)
(***************************************************************************)
\* indented prose, a blank line, a table row, a two-character pipe line
LookPool ==
  { <<" ", "x">>,
    <<>>,
    <<"a", "|", "b">>,
    <<"c", "|">> }

LookTexts == UNION {[1..n -> LookPool] : n \in 0..MaxLookLines}

InitLook ==
  /\ mode = "wholeTable"
  /\ \E ls \in LookTexts : text = join(ls, <<"\n">>)
  /\ lines = split(text, "\n")
  /\ i = 0
  /\ currentTextChunk = <<>> /\ currentTableLines = <<>>
  /\ currentChunk = <<>> /\ tableRows = <<>>
  /\ inTable = FALSE /\ chunks = <<>> /\ pc = "loop"
  /\ kind = <<>> /\ calls = <<>>
  /\ NoRow /\ NoClass /\ NoStream /\ NoPage /\ NoOther

NextLook ==
  TableStart \/ FalseAlarm \/ TableContinue \/ TableEnd \/ TextLine \/ Finish

SpecLook == InitLook /\ [][NextLook]_vars

(***************************************************************************)
(* POST: the response stream (route.ts 1059 to 1101; per-row version 483   *)
(* to 535).  The events are modelled as the objects given to               *)
(* JSON.stringify; the delays of the timers are left out.                  *)
(***************************************************************************)
\* the chunks createStreamableChunks returns here: prose, and the table (or
\* the table rows) of the block "a|b", "1|2"
StreamChunkPool(m) ==
  IF m = "wholeTable"
    THEN { [type |-> "text", content |-> <<"x">>],
           [type |-> "text", content |-> <<"y">>],
           [type |-> "table",
            content |-> normalizeTable(<< <<"a", "|", "b">>, <<"1", "|", "2">> >>)] }
    ELSE { [type |-> "text", content |-> <<"x">>] }
         \cup {[type |-> "table-row", content |-> r] :
                 r \in {parseAndFixTable(<<"a", "|", "b", "\n", "1", "|", "2">>)[k] :
                          k \in 1..2}}

StreamChunkLists(m) == UNION {[1..n -> StreamChunkPool(m)] : n \in 0..MaxChunks}

\* textToSend with a fault: one newline after every chunk but the last
textToSendSingle(list, idx, m) ==
  list[idx + 1].content \o (IF idx # Len(list) - 1 THEN <<"\n">> ELSE <<>>)

\* the text of the event for chunk idx (0-based).  Whole-table version: the
\* content, and "\n\n" unless it is the last chunk.  Per-row version: "\n\n"
\* after a text chunk that is not the last, "\n" after a table row followed
\* by a table row, "\n\n" after any other table row.
textToSend(list, idx, m) ==
  LET chunk == list[idx + 1]
      isLastChunk == idx = Len(list) - 1
  IN  IF m = "wholeTable"
        THEN chunk.content \o (IF ~isLastChunk THEN <<"\n", "\n">> ELSE <<>>)
      ELSE IF ~isLastChunk
        THEN IF chunk.type = "text" THEN chunk.content \o <<"\n", "\n">>
             ELSE IF chunk.type = "table-row"
               THEN IF list[idx + 2].type = "table-row"
                      THEN chunk.content \o <<"\n">>
                      ELSE chunk.content \o <<"\n", "\n">>
             ELSE chunk.content
      ELSE IF chunk.type = "table-row" THEN chunk.content \o <<"\n", "\n">>
      ELSE chunk.content

\* chunkIndex++ with a fault: a chunk is skipped
nextIndexSkipping(idx) == idx + 2

\* chunkIndex++
nextIndex(idx) == idx + 1

\* sendNextChunk, chunkIndex < streamChunks.length: the event is enqueued and
\* the next call is scheduled
SendChunk ==
  /\ timer /\ streamState = "readable"
  /\ chunkIndex < Len(chunks)
  /\ enqueued' = Append(enqueued, [type |-> "text-delta",
                                   textDelta |-> textToSend(chunks, chunkIndex, mode)])
  /\ chunkIndex' = nextIndex(chunkIndex)
  /\ timer' = TRUE
  /\ UNCHANGED <<streamState, timerFailed>>
  /\ UNCHANGED <<chunkVars, rowVars, classVars, pageVars, otherVars>>

\* sendNextChunk, otherwise: the finish event is enqueued and the stream closed
SendFinish ==
  /\ timer /\ streamState = "readable"
  /\ chunkIndex >= Len(chunks)
  /\ enqueued' = Append(enqueued, [type |-> "finish"])
  /\ streamState' = "closed"
  /\ timer' = FALSE
  /\ UNCHANGED <<chunkIndex, timerFailed>>
  /\ UNCHANGED <<chunkVars, rowVars, classVars, pageVars, otherVars>>

\* sendNextChunk on a cancelled stream: controller.enqueue throws a TypeError
\* (the stream is no longer readable), so the callback ends there: nothing is
\* enqueued, chunkIndex is not advanced, no timer is set
SendFails ==
  /\ timer /\ streamState = "cancelled"
  /\ timerFailed' = TRUE
  /\ timer' = FALSE
  /\ UNCHANGED <<chunkIndex, enqueued, streamState>>
  /\ UNCHANGED <<chunkVars, rowVars, classVars, pageVars, otherVars>>

\* the client disconnects: the stream is cancelled.  The stream has no cancel
\* handler, so a pending timer stays pending.  The client holds the response
\* only after start() has made the first call of sendNextChunk.
Cancel ==
  /\ streamState = "readable" /\ Len(enqueued) > 0
  /\ streamState' = "cancelled"
  /\ UNCHANGED <<chunkIndex, enqueued, timer, timerFailed>>
  /\ UNCHANGED <<chunkVars, rowVars, classVars, pageVars, otherVars>>

\* new ReadableStream({start}): createStreamableChunks has returned any list of
\* at most MaxChunks chunks, chunkIndex is 0 and start() is about to call
\* sendNextChunk
InitStream ==
  /\ mode \in {"wholeTable", "perRow"}
  /\ chunks \in StreamChunkLists(mode)
  /\ pc = "done"
  /\ text = <<>> /\ lines = <<>> /\ i = 0
  /\ currentTextChunk = <<>> /\ currentTableLines = <<>>
  /\ currentChunk = <<>> /\ tableRows = <<>>
  /\ inTable = FALSE /\ kind = <<>> /\ calls = <<>>
  /\ chunkIndex = 0 /\ enqueued = <<>> /\ streamState = "readable"
  /\ timer = TRUE /\ timerFailed = FALSE
  /\ NoRow /\ NoClass /\ NoPage /\ NoOther

SendNextChunk == SendChunk \/ SendFinish \/ SendFails

NextStream == SendChunk \/ SendFinish \/ SendFails \/ Cancel

\* a call of sendNextChunk that is due is made: start() calls it, and the
\* event loop runs every timer that was set
SpecStream == InitStream /\ [][NextStream]_vars /\ WF_vars(SendNextChunk)

(***************************************************************************)
(* The chat page: the input field and handleSubmit, in its two versions    *)
(* (app/page.tsx 59 to 194; unnamed/part_002 924 onwards).  The input is   *)
(* kept as runs of equal characters, [char, count], so that inputs around  *)
(* MAX_INPUT_CHARS characters can be written down.                         *)
(***************************************************************************)
MAX_INPUT_CHARS == 8000

\* value.length
RECURSIVE inputLength(_)
inputLength(v) ==
  IF v = <<>> THEN 0 ELSE Head(v).count + inputLength(Tail(v))

\* String.prototype.trim on runs: the whitespace runs at both ends are dropped
RECURSIVE trimInput(_)
trimInput(v) ==
  IF v = <<>> THEN <<>>
  ELSE IF isWhitespace(Head(v).char) THEN trimInput(Tail(v))
  ELSE IF isWhitespace(v[Len(v)].char) THEN trimInput(SubSeq(v, 1, Len(v) - 1))
  ELSE v

\* what the user may type or paste: nothing, a space, a letter, exactly the
\* limit, one more than the limit, the limit after a space, the limit before
\* a space, and more spaces than the limit
InputPool ==
  { <<>>,
    << [char |-> " ", count |-> 1] >>,
    << [char |-> "a", count |-> 1] >>,
    << [char |-> "a", count |-> MAX_INPUT_CHARS] >>,
    << [char |-> "a", count |-> MAX_INPUT_CHARS + 1] >>,
    << [char |-> " ", count |-> 1], [char |-> "a", count |-> MAX_INPUT_CHARS] >>,
    << [char |-> "a", count |-> MAX_INPUT_CHARS], [char |-> " ", count |-> 1] >>,
    << [char |-> " ", count |-> MAX_INPUT_CHARS + 1] >> }

\* the guard of handleSubmit.  app/page.tsx: !input.trim() || isLoading;
\* part_002: !input.trim() || isLoading || charCount > MAX_INPUT_CHARS
submitReturnsEarly ==
  \/ trimInput(input) = <<>>
  \/ isLoading
  \/ (page = "unnamed/part_002" /\ charCount > MAX_INPUT_CHARS)

\* onChange.  app/page.tsx: setInput(e.target.value); part_002:
\* handleInputChange, which also sets charCount to value.length
HandleInputChange ==
  /\ page # "none"
  /\ \E value \in InputPool :
       /\ value # input
       /\ input' = value
       /\ charCount' = IF page = "unnamed/part_002" THEN inputLength(value)
                                                    ELSE charCount
  /\ UNCHANGED <<page, isLoading, messages, error, requests, submits>>
  /\ UNCHANGED <<chunkVars, rowVars, classVars, streamVars, otherVars>>

\* handleSubmit returns at its guard
SubmitIgnored ==
  /\ page # "none" /\ submits < MaxSubmits
  /\ submitReturnsEarly
  /\ submits' = submits + 1
  /\ UNCHANGED <<page, input, charCount, isLoading, messages, error, requests>>
  /\ UNCHANGED <<chunkVars, rowVars, classVars, streamVars, otherVars>>

\* handleSubmit past its guard: the user message and the placeholder of the
\* assistant message are added, the input is cleared, and the request is sent
SubmitSent ==
  /\ page # "none" /\ submits < MaxSubmits
  /\ ~submitReturnsEarly
  /\ submits' = submits + 1
  /\ messages' = messages \o
       << [role |-> "user", content |-> trimInput(input), isStreaming |-> FALSE],
          [role |-> "assistant", content |-> <<>>, isStreaming |-> TRUE] >>
  /\ input' = <<>>
  /\ charCount' = 0
  /\ isLoading' = TRUE
  /\ error' = "null"
  /\ requests' = Append(requests, [input |-> input, content |-> trimInput(input)])
  /\ UNCHANGED page
  /\ UNCHANGED <<chunkVars, rowVars, classVars, streamVars, otherVars>>

\* the stream of the request ends with the finish event: the assistant
\* message stops streaming; finally: setIsLoading(false)
RequestFinishes ==
  /\ page # "none" /\ isLoading
  /\ messages' = [messages EXCEPT ![Len(messages)].isStreaming = FALSE]
  /\ isLoading' = FALSE
  /\ UNCHANGED <<page, input, charCount, error, requests, submits>>
  /\ UNCHANGED <<chunkVars, rowVars, classVars, streamVars, otherVars>>

\* the request fails (not by abort): the placeholder is removed and the error
\* is set; finally: setIsLoading(false)
RequestFails ==
  /\ page # "none" /\ isLoading
  /\ messages' = SubSeq(messages, 1, Len(messages) - 1)
  /\ error' = "failed"
  /\ isLoading' = FALSE
  /\ UNCHANGED <<page, input, charCount, requests, submits>>
  /\ UNCHANGED <<chunkVars, rowVars, classVars, streamVars, otherVars>>

\* the page is mounted, in either version
InitPage ==
  /\ page \in {"app/page.tsx", "unnamed/part_002"}
  /\ input = <<>> /\ charCount = 0 /\ isLoading = FALSE
  /\ messages = <<>> /\ error = "null" /\ requests = <<>> /\ submits = 0
  /\ NoChunking /\ NoRow /\ NoClass /\ NoStream /\ NoOther

NextPage ==
  HandleInputChange \/ SubmitIgnored \/ SubmitSent \/ RequestFinishes \/ RequestFails

SpecPage == InitPage /\ [][NextPage]_vars

(***************************************************************************)
(* cleanResponseText (route.ts 826 to 848).  Each replace is a scan from   *)
(* left to right over the 1-based index k; a match is replaced and the     *)
(* scan goes on after it.                                                  *)
(***************************************************************************)
Digits == {"0", "1", "2", "3", "4", "5", "6", "7", "8", "9"}

Quotes == {"\"", "'"}

\* the end of the longest run of characters of S that starts at k; k - 1 when
\* s[k] is not in S
runEnd(s, k, S) ==
  MaxOf({k - 1} \cup {e \in k..Len(s) : \A j \in k..e : s[j] \in S})

\* .replace(/\\c/g, r) for one character c: a backslash and c become r
RECURSIVE unescape(_, _, _, _)
unescape(s, c, r, k) ==
  IF k > Len(s) THEN <<>>
  ELSE IF k < Len(s) /\ s[k] = "\\" /\ s[k + 1] = c
    THEN <<r>> \o unescape(s, c, r, k + 2)
  ELSE <<s[k]>> \o unescape(s, c, r, k + 1)

\* .replace(/^\s*["']|["']\s*$/g, ""): leading whitespace with the quote after
\* it, and a quote with nothing but whitespace after it
removeQuotes(s) ==
  LET lead == runEnd(s, 1, {" ", "\n", "\t", "\r"})
      from == IF lead < Len(s) /\ s[lead + 1] \in Quotes THEN lead + 2 ELSE 1
      rest == SubSeq(s, from, Len(s))
      last == {q \in 1..Len(rest) :
                 /\ rest[q] \in Quotes
                 /\ \A j \in (q + 1)..Len(rest) : isWhitespace(rest[j])}
  IN  IF last = {} THEN rest ELSE SubSeq(rest, 1, MinOf(last) - 1)

\* .replace(/([^\n])(- )/g, "$1\n\n$2")
RECURSIVE breakBeforeHyphens(_, _)
breakBeforeHyphens(s, k) ==
  IF k > Len(s) THEN <<>>
  ELSE IF k + 2 <= Len(s) /\ s[k] # "\n" /\ s[k + 1] = "-" /\ s[k + 2] = " "
    THEN <<s[k], "\n", "\n", "-", " ">> \o breakBeforeHyphens(s, k + 3)
  ELSE <<s[k]>> \o breakBeforeHyphens(s, k + 1)

\* .replace(/\n- /g, "\n\n- ")
RECURSIVE spaceBullets(_, _)
spaceBullets(s, k) ==
  IF k > Len(s) THEN <<>>
  ELSE IF k + 2 <= Len(s) /\ s[k] = "\n" /\ s[k + 1] = "-" /\ s[k + 2] = " "
    THEN <<"\n", "\n", "-", " ">> \o spaceBullets(s, k + 3)
  ELSE <<s[k]>> \o spaceBullets(s, k + 1)

\* \d+\.\s+ matched at q, as the second group of the numbered-list pattern
\* does: the end of the match, or 0 when there is none
numberAt(s, q) ==
  LET d == runEnd(s, q, Digits)
      w == runEnd(s, d + 2, {" ", "\n", "\t", "\r"})
  IN  IF d >= q /\ d < Len(s) /\ s[d + 1] = "." /\ w >= d + 2 THEN w ELSE 0

\* the starts of the second group for a first group that begins at p and
\* whose \s+ ends at w: something that is no newline lies between
secondGroups(s, w) ==
  {q \in (w + 2)..Len(s) :
     /\ \A j \in (w + 1)..(q - 1) : s[j] # "\n"
     /\ numberAt(s, q) > 0}

\* /(\d+\.\s+[^\n]+)(\d+\.\s+)/ matched at p: the start of the second group
\* (the greedy \s+ as long as it can be, then the greedy [^\n]+ as long as it
\* can be), or 0 when there is no match at p
numberedAt(s, p) ==
  LET d  == runEnd(s, p, Digits)
      wm == runEnd(s, d + 2, {" ", "\n", "\t", "\r"})
      ws == {w \in (d + 2)..wm : secondGroups(s, w) # {}}
  IN  IF d >= p /\ d < Len(s) /\ s[d + 1] = "." /\ ws # {}
        THEN MaxOf(secondGroups(s, MaxOf(ws)))
        ELSE 0

\* .replace(/(\d+\.\s+[^\n]+)(\d+\.\s+)/g, "$1\n\n$2")
RECURSIVE breakNumbered(_, _)
breakNumbered(s, k) ==
  IF k > Len(s) THEN <<>>
  ELSE IF numberedAt(s, k) > 0
    THEN SubSeq(s, k, numberedAt(s, k) - 1) \o <<"\n", "\n">>
         \o SubSeq(s, numberedAt(s, k), numberAt(s, numberedAt(s, k)))
         \o breakNumbered(s, numberAt(s, numberedAt(s, k)) + 1)
  ELSE <<s[k]>> \o breakNumbered(s, k + 1)

\* /(\*\*[^*]+\*\*)(\*\*)/ matched at p: the end of the first group, or 0
headerAt(s, p) ==
  LET r == MaxOf({p + 1} \cup
                 {e \in (p + 2)..Len(s) : \A j \in (p + 2)..e : s[j] # "*"})
  IN  IF /\ p + 1 <= Len(s) /\ s[p] = "*" /\ s[p + 1] = "*"
         /\ r >= p + 2 /\ r + 4 <= Len(s)
         /\ \A j \in (r + 1)..(r + 4) : s[j] = "*"
        THEN r + 2 ELSE 0

\* .replace(/(\*\*[^*]+\*\*)(\*\*)/g, "$1\n\n$2")
RECURSIVE breakHeaders(_, _)
breakHeaders(s, k) ==
  IF k > Len(s) THEN <<>>
  ELSE IF headerAt(s, k) > 0
    THEN SubSeq(s, k, headerAt(s, k)) \o <<"\n", "\n", "*", "*">>
         \o breakHeaders(s, headerAt(s, k) + 3)
  ELSE <<s[k]>> \o breakHeaders(s, k + 1)

\* the first statement of cleanResponseText: the escapes, the quotes, trim
unescaped(t) ==
  trim(removeQuotes(
    unescape(unescape(unescape(unescape(unescape(t, "n", "\n", 1),
                                                 "t", "\t", 1),
                                        "r", "\r", 1),
                               "\\", "\\", 1),
             "\"", "\"", 1)))

\* cleanResponseText
cleanResponseText(t) ==
  breakHeaders(
    breakNumbered(
      spaceBullets(breakBeforeHyphens(unescaped(t), 1), 1), 1), 1)

(***************************************************************************)
(* POST after the worker call (route.ts 1039 to 1101, whole-table          *)
(* version): the fallback for an empty response, cleanResponseText,        *)
(* createStreamableChunks, and the response stream.                        *)
(***************************************************************************)
\* "No response received from AI"
Fallback ==
  <<"N", "o", " ", "r", "e", "s", "p", "o", "n", "s", "e", " ",
    "r", "e", "c", "e", "i", "v", "e", "d", " ", "f", "r", "o", "m", " ", "A", "I">>

\* the lines the worker's responses are made of: a separator row, a data row,
\* a row without a usable cell, a row with a numbered cell, prose, a blank
\* line, a quote
PostLines ==
  { <<"|", " ", "-", "-", "-", " ", "|", " ", "-", "-", "-", " ", "|">>,
    <<"a", "|", "b">>,
    <<"|", " ", "|">>,
    <<"1", ".", " ", "a", "|", "2", ".", " ", "b">>,
    <<" ", "x">>,
    <<>>,
    <<"\"">> }

PostBodies ==
  {join(ls, <<"\n">>) : ls \in UNION {[1..n -> PostLines] : n \in 0..MaxPostLines}}

\* if (!aiResponse || aiResponse.trim().length === 0) aiResponse = "No response..."
orFallback(response) == IF Len(trim(response)) = 0 THEN Fallback ELSE response

\* the fallback, cleanResponseText, and the entry of createStreamableChunks
CleanResponse ==
  /\ postPc = "received"
  /\ aiResponse' = orFallback(aiResponse)
  /\ cleanedResponse' = cleanResponseText(orFallback(aiResponse))
  /\ postPc' = "cleaned"
  /\ text' = cleanResponseText(orFallback(aiResponse))
  /\ lines' = split(cleanResponseText(orFallback(aiResponse)), "\n")
  /\ pc' = "loop"
  /\ UNCHANGED <<mode, i, currentTextChunk, currentTableLines, currentChunk,
                 tableRows, inTable, chunks, kind, calls>>
  /\ UNCHANGED <<rowVars, classVars, streamVars, pageVars, laterVars>>

\* new ReadableStream({start}): start() is about to call sendNextChunk
StartStream ==
  /\ postPc = "cleaned" /\ pc = "done" /\ streamState = "idle"
  /\ streamState' = "readable"
  /\ chunkIndex' = 0
  /\ timer' = TRUE
  /\ UNCHANGED <<enqueued, timerFailed>>
  /\ UNCHANGED <<chunkVars, rowVars, classVars, pageVars, otherVars>>

\* the worker has answered with any body of at most MaxPostLines lines
InitPost ==
  /\ aiResponse \in PostBodies
  /\ cleanedResponse = <<>>
  /\ postPc = "received"
  /\ NoChunking /\ NoRow /\ NoClass /\ NoStream /\ NoPage /\ NoLater

NextPost ==
  \/ CleanResponse
  \/ TableStart \/ FalseAlarm \/ TableContinue \/ TableEnd \/ TextLine \/ Finish
  \/ StartStream \/ SendChunk \/ SendFinish

SpecPost == InitPost /\ [][NextPost]_vars

(***************************************************************************)
(* The response on the wire and the read loop of handleSubmit (route.ts    *)
(* 1077 to 1094, app/page.tsx 130 to 173).  The wire carries characters:   *)
(* TextDecoder.decode with stream: true gives back the characters of the   *)
(* bytes read so far, whatever the split.                                  *)
(***************************************************************************)
MaxWireChunks == 2

\* the escape with a fault: a newline is written as it is
escapeCharRawNewline(c) ==
  IF c = "\"" THEN <<"\\", "\"">>
  ELSE IF c = "\\" THEN <<"\\", "\\">>
  ELSE <<c>>

\* the escape of one character inside a JSON string.  The texts here have no
\* other control characters.
escapeChar(c) ==
  IF c = "\"" THEN <<"\\", "\"">>
  ELSE IF c = "\\" THEN <<"\\", "\\">>
  ELSE IF c = "\n" THEN <<"\\", "n">>
  ELSE <<c>>

RECURSIVE escapeAll(_)
escapeAll(s) ==
  IF s = <<>> THEN <<>> ELSE escapeChar(Head(s)) \o escapeAll(Tail(s))

\* {"type":"finish"}
FinishJson ==
  <<"{", "\"", "t", "y", "p", "e", "\"", ":",
    "\"", "f", "i", "n", "i", "s", "h", "\"", "}">>

\* {"type":"text-delta","textDelta":
DeltaHead ==
  <<"{", "\"", "t", "y", "p", "e", "\"", ":",
    "\"", "t", "e", "x", "t", "-", "d", "e", "l", "t", "a", "\"", ",",
    "\"", "t", "e", "x", "t", "D", "e", "l", "t", "a", "\"", ":">>

\* JSON.stringify of an event object
JSONstringify(event) ==
  IF event.type = "finish" THEN FinishJson
  ELSE DeltaHead \o <<"\"">> \o escapeAll(event.textDelta) \o <<"\"", "}">>

\* "data: "
DataPrefix == <<"d", "a", "t", "a", ":", " ">>

\* `data: ${JSON.stringify(...)}\n\n`
sseChunk(event) == DataPrefix \o JSONstringify(event) \o <<"\n", "\n">>

\* String.prototype.startsWith
startsWith(s, prefix) ==
  Len(s) >= Len(prefix) /\ SubSeq(s, 1, Len(prefix)) = prefix

\* String.prototype.split for a separator of several characters
RECURSIVE splitOn(_, _)
splitOn(s, sep) ==
  LET at == {k \in 1..(Len(s) - Len(sep) + 1) :
               SubSeq(s, k, k + Len(sep) - 1) = sep}
  IN  IF at = {} THEN <<s>>
      ELSE <<SubSeq(s, 1, MinOf(at) - 1)>>
             \o splitOn(SubSeq(s, MinOf(at) + Len(sep), Len(s)), sep)

\* the JSON string literal whose opening quote has been read: the characters
\* up to the closing quote, with the escapes undone, and what follows the
\* closing quote; ok is FALSE when the literal is not closed, holds a raw
\* control character or an escape not written by escapeChar
RECURSIVE parseString(_, _)
parseString(s, value) ==
  IF s = <<>> THEN [ok |-> FALSE, value |-> value, rest |-> <<>>]
  ELSE IF Head(s) = "\"" THEN [ok |-> TRUE, value |-> value, rest |-> Tail(s)]
  ELSE IF Head(s) = "\n" THEN [ok |-> FALSE, value |-> value, rest |-> s]
  ELSE IF Head(s) = "\\"
    THEN IF Len(s) < 2 THEN [ok |-> FALSE, value |-> value, rest |-> s]
         ELSE IF s[2] = "n" THEN parseString(Tail(Tail(s)), Append(value, "\n"))
         ELSE IF s[2] \in {"\"", "\\"}
           THEN parseString(Tail(Tail(s)), Append(value, s[2]))
         ELSE [ok |-> FALSE, value |-> value, rest |-> s]
  ELSE parseString(Tail(s), Append(value, Head(s)))

\* JSON.parse of the text of an event; type "SyntaxError" when it throws.
\* Only the two shapes sendNextChunk writes are recognised.
JSONparse(s) ==
  IF s = FinishJson THEN [type |-> "finish"]
  ELSE IF startsWith(s, DeltaHead \o <<"\"">>)
    THEN LET r == parseString(SubSeq(s, Len(DeltaHead) + 2, Len(s)), <<>>)
         IN  IF r.ok /\ r.rest = <<"}">>
               THEN [type |-> "text-delta", textDelta |-> r.value]
               ELSE [type |-> "SyntaxError"]
  ELSE [type |-> "SyntaxError"]

\* the body of the for loop over the complete events: accumulatedContent
\* after the event in this line
afterLine(acc, ln) ==
  IF startsWith(ln, DataPrefix)
    THEN LET data == JSONparse(SubSeq(ln, Len(DataPrefix) + 1, Len(ln)))
         IN  IF data.type = "text-delta" /\ data.textDelta # <<>>
               THEN acc \o data.textDelta
               ELSE acc
    ELSE acc

RECURSIVE afterLines(_, _)
afterLines(acc, lns) ==
  IF lns = <<>> THEN acc ELSE afterLines(afterLine(acc, Head(lns)), Tail(lns))

\* the chunks of the response here: prose, and prose with a quote, a
\* backslash and a newline
WireChunkPool ==
  { [type |-> "text", content |-> <<"x">>],
    [type |-> "text", content |-> <<"\\", "\"", "\n", "n">>] }

WireChunkLists == UNION {[1..n -> WireChunkPool] : n \in 0..MaxWireChunks}

\* the next enqueued event is encoded and leaves for the client
Transmit ==
  /\ readPc = "reading"
  /\ wired < Len(enqueued)
  /\ wire' = wire \o sseChunk(enqueued[wired + 1])
  /\ wired' = wired + 1
  /\ UNCHANGED <<buffer, accumulatedContent, readPc>>
  /\ UNCHANGED <<chunkVars, rowVars, classVars, streamVars, pageVars, postVars,
                 chatVars, diagramVars>>

\* reader.read() returns some of the characters on the wire, at least one:
\* they are added to the buffer, the buffer is split at "\n\n", the last
\* part is kept as the buffer and the parts before it are handled
Read ==
  /\ readPc = "reading"
  /\ \E n \in 1..Len(wire) :
       LET lns == splitOn(buffer \o SubSeq(wire, 1, n), <<"\n", "\n">>)
       IN  /\ wire' = SubSeq(wire, n + 1, Len(wire))
           /\ buffer' = lns[Len(lns)]
           /\ accumulatedContent' =
                afterLines(accumulatedContent, SubSeq(lns, 1, Len(lns) - 1))
  /\ UNCHANGED <<wired, readPc>>
  /\ UNCHANGED <<chunkVars, rowVars, classVars, streamVars, pageVars, postVars,
                 chatVars, diagramVars>>

\* reader.read() returns done: the stream is closed and everything was read
ReadDone ==
  /\ readPc = "reading"
  /\ streamState = "closed" /\ wired = Len(enqueued) /\ wire = <<>>
  /\ readPc' = "done"
  /\ UNCHANGED <<wire, wired, buffer, accumulatedContent>>
  /\ UNCHANGED <<chunkVars, rowVars, classVars, streamVars, pageVars, postVars,
                 chatVars, diagramVars>>

\* the response has arrived: the stream of any list of at most MaxWireChunks
\* chunks is about to start, and the read loop is entered
InitWire ==
  /\ chunks \in WireChunkLists
  /\ mode = "wholeTable" /\ pc = "done"
  /\ text = <<>> /\ lines = <<>> /\ i = 0
  /\ currentTextChunk = <<>> /\ currentTableLines = <<>>
  /\ currentChunk = <<>> /\ tableRows = <<>>
  /\ inTable = FALSE /\ kind = <<>> /\ calls = <<>>
  /\ chunkIndex = 0 /\ enqueued = <<>> /\ streamState = "readable"
  /\ timer = TRUE /\ timerFailed = FALSE
  /\ wire = <<>> /\ wired = 0 /\ buffer = <<>> /\ accumulatedContent = <<>>
  /\ readPc = "reading"
  /\ NoRow /\ NoClass /\ NoPage /\ NoPost /\ NoChat /\ NoDiagram

NextWire == SendChunk \/ SendFinish \/ Transmit \/ Read \/ ReadDone

SpecWire == InitWire /\ [][NextWire]_vars

(***************************************************************************)
(* The chat page: the requests of handleSubmit (app/page.tsx 59 to 194).   *)
(* handleSubmit is a closure of the render it was created in: it sees the  *)
(* input and isLoading of that render, while the state setters and         *)
(* abortControllerRef act on the component at once.  A call runs without   *)
(* interruption up to its first await; after that the calls in flight go   *)
(* on in any order.  A message carries, besides its id, the number of the  *)
(* call that created it.                                                   *)
(***************************************************************************)
MaxNow == 2
MaxDeltas == 1

\* the variables the requests leave alone
besideChat == <<chunkVars, rowVars, classVars, streamVars, postVars, readVars,
                diagramVars>>

\* what the user types here: a letter, or a space
ChatInputs ==
  { << [char |-> "a", count |-> 1] >>, << [char |-> " ", count |-> 1] >> }

\* controller.abort(): the signal of the request the ref holds is aborted
abort(rs, ref) ==
  [k \in DOMAIN rs |-> IF k = ref THEN [rs[k] EXCEPT !.aborted = TRUE] ELSE rs[k]]

\* prev.filter((msg) => msg.id !== assistantMessageId)
withoutId(msgs, id) == SelectSeq(msgs, LAMBDA msg : msg.id # id)

\* prev.map((msg) => (msg.id === assistantMessageId ? { ...msg, content } : msg))
withContent(msgs, id, content) ==
  [k \in DOMAIN msgs |->
     IF msgs[k].id = id THEN [msgs[k] EXCEPT !.content = content] ELSE msgs[k]]

\* prev.map((msg) => (msg.id === assistantMessageId
\*                      ? { ...msg, isStreaming: false } : msg))
notStreaming(msgs, id) ==
  [k \in DOMAIN msgs |->
     IF msgs[k].id = id THEN [msgs[k] EXCEPT !.isStreaming = FALSE] ELSE msgs[k]]

\* the content after so many text-delta events
deltaContent(n) == [k \in 1..n |-> "x"]

\* the clock goes on
Tick ==
  /\ page = "app/page.tsx" /\ now < MaxNow
  /\ now' = now + 1
  /\ UNCHANGED <<rendered, abortControllerRef, reqs>>
  /\ UNCHANGED <<pageVars, besideChat>>

\* onChange: setInput(e.target.value)
Type ==
  /\ page = "app/page.tsx"
  /\ \E value \in ChatInputs : value # input /\ input' = value
  /\ UNCHANGED <<page, charCount, isLoading, messages, error, requests, submits>>
  /\ UNCHANGED <<chatVars, besideChat>>

\* the component renders again: handleSubmit is created anew and sees the
\* state of now
Render ==
  /\ page = "app/page.tsx"
  /\ rendered # [input |-> input, isLoading |-> isLoading]
  /\ rendered' = [input |-> input, isLoading |-> isLoading]
  /\ UNCHANGED <<now, abortControllerRef, reqs>>
  /\ UNCHANGED <<pageVars, besideChat>>

\* handleSubmit up to the call of fetch.  It returns at the guard, or it
\* aborts the controller the ref holds, adds the user message (id Date.now())
\* and the placeholder (id Date.now() + 1, read a moment later), sets
\* isLoading, and puts a new controller into the ref
HandleSubmit ==
  /\ page = "app/page.tsx" /\ submits < MaxSubmits
  /\ submits' = submits + 1
  /\ IF trimInput(rendered.input) = <<>> \/ rendered.isLoading
       THEN UNCHANGED <<input, isLoading, messages, error, now,
                        abortControllerRef, reqs>>
       ELSE \E later \in {t \in {now, now + 1} : t <= MaxNow} :
              /\ now' = later
              /\ messages' = messages \o
                   << [id |-> now, role |-> "user",
                       content |-> trimInput(rendered.input),
                       isStreaming |-> FALSE, call |-> Len(reqs) + 1],
                      [id |-> later + 1, role |-> "assistant",
                       content |-> <<>>,
                       isStreaming |-> TRUE, call |-> Len(reqs) + 1] >>
              /\ input' = <<>>
              /\ isLoading' = TRUE
              /\ error' = "null"
              /\ reqs' = Append(abort(reqs, abortControllerRef),
                                [assistantMessageId |-> later + 1,
                                 aborted |-> FALSE, deltas |-> 0,
                                 at |-> "fetch"])
              /\ abortControllerRef' = Len(reqs) + 1
  /\ UNCHANGED <<page, charCount, requests, rendered>>
  /\ UNCHANGED besideChat

\* await fetch(...) returns a response that is ok and has a body
FetchResolves(r) ==
  /\ reqs[r].at = "fetch" /\ ~reqs[r].aborted
  /\ reqs' = [reqs EXCEPT ![r].at = "read"]
  /\ UNCHANGED <<now, rendered, abortControllerRef>>
  /\ UNCHANGED <<pageVars, besideChat>>

\* an event of type text-delta is read
ReadTextDelta(r) ==
  /\ reqs[r].at = "read" /\ ~reqs[r].aborted
  /\ reqs[r].deltas < MaxDeltas
  /\ reqs' = [reqs EXCEPT ![r].deltas = @ + 1]
  /\ messages' = withContent(messages, reqs[r].assistantMessageId,
                             deltaContent(reqs[r].deltas + 1))
  /\ UNCHANGED <<page, input, charCount, isLoading, error, requests, submits>>
  /\ UNCHANGED <<now, rendered, abortControllerRef>>
  /\ UNCHANGED besideChat

\* the event of type finish is read
ReadFinishEvent(r) ==
  /\ reqs[r].at = "read" /\ ~reqs[r].aborted
  /\ messages' = notStreaming(messages, reqs[r].assistantMessageId)
  /\ UNCHANGED <<page, input, charCount, isLoading, error, requests, submits>>
  /\ UNCHANGED chatVars
  /\ UNCHANGED besideChat

\* reader.read() returns done: the loop is left, the message is marked as
\* complete; finally
ReadReturnsDone(r) ==
  /\ reqs[r].at = "read" /\ ~reqs[r].aborted
  /\ reqs' = [reqs EXCEPT ![r].at = "ended"]
  /\ messages' = notStreaming(messages, reqs[r].assistantMessageId)
  /\ isLoading' = FALSE
  /\ abortControllerRef' = 0
  /\ UNCHANGED <<page, input, charCount, error, requests, submits>>
  /\ UNCHANGED <<now, rendered>>
  /\ UNCHANGED besideChat

\* fetch rejects, the response is not ok, there is no reader, or a read
\* rejects, and not by abort: the catch removes the placeholder and sets the
\* error; finally
RequestThrows(r) ==
  /\ reqs[r].at \in {"fetch", "read"} /\ ~reqs[r].aborted
  /\ reqs' = [reqs EXCEPT ![r].at = "failed"]
  /\ messages' = withoutId(messages, reqs[r].assistantMessageId)
  /\ error' = "failed"
  /\ isLoading' = FALSE
  /\ abortControllerRef' = 0
  /\ UNCHANGED <<page, input, charCount, requests, submits>>
  /\ UNCHANGED <<now, rendered>>
  /\ UNCHANGED besideChat

\* the signal is aborted: the pending fetch or read rejects with an
\* AbortError, which the catch only logs; finally
RequestAborted(r) ==
  /\ reqs[r].at \in {"fetch", "read"} /\ reqs[r].aborted
  /\ reqs' = [reqs EXCEPT ![r].at = "aborted"]
  /\ isLoading' = FALSE
  /\ abortControllerRef' = 0
  /\ UNCHANGED <<page, input, charCount, messages, error, requests, submits>>
  /\ UNCHANGED <<now, rendered>>
  /\ UNCHANGED besideChat

\* the page is mounted
InitChat ==
  /\ page = "app/page.tsx"
  /\ input = <<>> /\ charCount = 0 /\ isLoading = FALSE
  /\ messages = <<>> /\ error = "null" /\ requests = <<>> /\ submits = 0
  /\ NoChat
  /\ NoChunking /\ NoRow /\ NoClass /\ NoStream /\ NoPost /\ NoRead
  /\ NoDiagram

NextChat ==
  \/ Tick \/ Type \/ Render \/ HandleSubmit
  \/ (\E r \in DOMAIN reqs : FetchResolves(r))
  \/ (\E r \in DOMAIN reqs : ReadTextDelta(r))
  \/ (\E r \in DOMAIN reqs : ReadFinishEvent(r))
  \/ (\E r \in DOMAIN reqs : ReadReturnsDone(r))
  \/ (\E r \in DOMAIN reqs : RequestThrows(r))
  \/ (\E r \in DOMAIN reqs : RequestAborted(r))

SpecChat == InitChat /\ [][NextChat]_vars

(***************************************************************************)
(* MermaidDiagram (components/mermaid-diagram.tsx), in its two variants:   *)
(* the one that writes the SVG into the container of diagramRef (lines 1   *)
(* to 199) and the one that keeps it in the state diagramSvg (201          *)
(* onwards).  A change of the prop or of the state is committed in one     *)
(* step; React runs the render effect, and before it the cleanup of the    *)
(* effect before, in a later step, and always before the next commit.  A   *)
(* state setter acts at once, and not at all after the unmount.  Of the    *)
(* code only whether mermaid.parse accepts it matters.                     *)
(***************************************************************************)
MaxRenders == 3

\* the variables the component leaves alone
besideDiagram == <<chunkVars, rowVars, classVars, streamVars, pageVars,
                   postVars, readVars, chatVars>>

\* the values of the prop: two diagrams, and a text mermaid rejects
DiagramCodes == { <<"a">>, <<"b">>, <<"!">> }

\* mermaid.parse(prepared) does not throw
parses(c) == c # <<"!">>

\* the svg of mermaid.render
svgOf(c) == <<"<svg>">> \o c

ViewModes(v) ==
  IF v = "svg" THEN {"visual", "code", "table"} ELSE {"visual", "code"}

\* the dependencies of the render effect: [mermaidLoaded, viewMode, code] in
\* the ref variant, [viewMode, code] in the svg variant, where mermaidLoaded
\* stays false
currentDeps == <<mermaidLoaded, viewMode, code>>

\* diagramRef.current is set: the container is rendered, which the JSX does
\* in visual mode when isLoading is false and there is no error
containerRendered ==
  viewMode = "visual" /\ ~diagramIsLoading /\ diagramError = "null"

\* the cleanup without effect: cancelled is left as it is
cancelNone(rs) == rs

\* the cleanup of the svg variant: cancelled = true, for the render of the
\* effect it belongs to (those before are cancelled already)
cancelAll(rs) == [k \in DOMAIN rs |-> [rs[k] EXCEPT !.cancelled = TRUE]]

\* the parent passes another code
ChangeCode ==
  /\ variant # "none" /\ mounted /\ effectDeps = currentDeps
  /\ Len(renders) < MaxRenders
  /\ \E c \in DiagramCodes : c # code /\ code' = c
  /\ UNCHANGED <<variant, viewMode, mounted, mermaidLoaded, loadPc,
                 diagramIsLoading, diagramError, diagramSvg, effectDeps,
                 renders>>
  /\ UNCHANGED besideDiagram

\* a click on Visual, Code or Table
SetViewMode ==
  /\ variant # "none" /\ mounted /\ effectDeps = currentDeps
  /\ Len(renders) < MaxRenders
  /\ \E v \in ViewModes(variant) : v # viewMode /\ viewMode' = v
  /\ UNCHANGED <<variant, code, mounted, mermaidLoaded, loadPc,
                 diagramIsLoading, diagramError, diagramSvg, effectDeps,
                 renders>>
  /\ UNCHANGED besideDiagram

\* ref variant: import("mermaid") of loadMermaid resolves
LoadSucceeds ==
  /\ variant = "ref" /\ loadPc = "loading"
  /\ loadPc' = "loaded"
  /\ mermaidLoaded' = (IF mounted THEN TRUE ELSE mermaidLoaded)
  /\ UNCHANGED <<variant, code, viewMode, mounted, diagramIsLoading,
                 diagramError, diagramSvg, effectDeps, renders>>
  /\ UNCHANGED besideDiagram

\* ref variant: import("mermaid") of loadMermaid rejects
LoadFails ==
  /\ variant = "ref" /\ loadPc = "loading"
  /\ loadPc' = "failed"
  /\ diagramError' = (IF mounted THEN "Failed to load diagram renderer"
                                 ELSE diagramError)
  /\ diagramIsLoading' = (IF mounted THEN FALSE ELSE diagramIsLoading)
  /\ UNCHANGED <<variant, code, viewMode, mounted, mermaidLoaded, diagramSvg,
                 effectDeps, renders>>
  /\ UNCHANGED besideDiagram

\* the render effect runs for the dependencies committed last.  svg
\* variant: the cleanup of the run before, then setIsLoading(false) outside
\* visual mode, else setError(null), setIsLoading(true) and the call of
\* render().  ref variant: it returns when mermaid is not loaded, the mode is
\* not visual or diagramRef.current is null, else setError(null),
\* setIsLoading(true) and the call of renderDiagram(); it has no cleanup
RenderEffect ==
  /\ variant # "none" /\ mounted /\ effectDeps # currentDeps
  /\ effectDeps' = currentDeps
  /\ IF variant = "svg"
       THEN IF viewMode # "visual"
              THEN /\ diagramIsLoading' = FALSE
                   /\ renders' = cancelAll(renders)
                   /\ UNCHANGED diagramError
              ELSE /\ diagramError' = "null"
                   /\ diagramIsLoading' = TRUE
                   /\ renders' = Append(cancelAll(renders),
                                        [code |-> code, cancelled |-> FALSE,
                                         at |-> "pending"])
       ELSE IF ~mermaidLoaded \/ viewMode # "visual" \/ ~containerRendered
              THEN UNCHANGED <<diagramIsLoading, diagramError, renders>>
              ELSE /\ diagramError' = "null"
                   /\ diagramIsLoading' = TRUE
                   /\ renders' = Append(renders,
                                        [code |-> code, cancelled |-> FALSE,
                                         at |-> "pending"])
  /\ UNCHANGED <<variant, code, viewMode, mounted, mermaidLoaded, loadPc,
                 diagramSvg>>
  /\ UNCHANGED besideDiagram

\* the awaits of a render are over.  svg variant: nothing when cancelled,
\* else setDiagramSvg(svg) and setIsLoading(false), or setError and
\* setIsLoading(false) when parse threw.  ref variant: the container is
\* cleared and gets the svg when diagramRef.current is set, and
\* setIsLoading(false), or setError and setIsLoading(false)
RenderResolves(k) ==
  /\ renders[k].at = "pending"
  /\ renders' = [renders EXCEPT ![k].at = "done"]
  /\ IF ~mounted \/ (variant = "svg" /\ renders[k].cancelled)
       THEN UNCHANGED <<diagramIsLoading, diagramError, diagramSvg>>
       ELSE /\ diagramIsLoading' = FALSE
            /\ diagramError' =
                 (IF parses(renders[k].code) THEN diagramError
                  ELSE "Failed to render diagram")
            /\ diagramSvg' =
                 (IF variant = "svg"
                    THEN IF parses(renders[k].code) THEN svgOf(renders[k].code)
                                                    ELSE diagramSvg
                  ELSE IF ~containerRendered THEN diagramSvg
                  ELSE IF parses(renders[k].code) THEN svgOf(renders[k].code)
                  ELSE <<>>)
  /\ UNCHANGED <<variant, code, viewMode, mounted, mermaidLoaded, loadPc,
                 effectDeps>>
  /\ UNCHANGED besideDiagram

\* the component is unmounted
Unmount ==
  /\ variant # "none" /\ mounted
  /\ mounted' = FALSE
  /\ UNCHANGED <<variant, code, viewMode, mermaidLoaded, loadPc,
                 diagramIsLoading, diagramError, diagramSvg, effectDeps,
                 renders>>
  /\ UNCHANGED besideDiagram

\* the cleanup of the render effect after the unmount (svg variant)
UnmountCleanup ==
  /\ variant = "svg" /\ ~mounted /\ effectDeps # <<"unmounted">>
  /\ effectDeps' = <<"unmounted">>
  /\ renders' = cancelAll(renders)
  /\ UNCHANGED <<variant, code, viewMode, mounted, mermaidLoaded, loadPc,
                 diagramIsLoading, diagramError, diagramSvg>>
  /\ UNCHANGED besideDiagram

\* the component has been mounted, in either variant, with any code; its
\* effects have not run yet
InitDiagram ==
  /\ variant \in {"ref", "svg"}
  /\ code \in DiagramCodes
  /\ viewMode = "visual" /\ mounted = TRUE
  /\ mermaidLoaded = FALSE
  /\ loadPc = (IF variant = "ref" THEN "loading" ELSE "none")
  /\ diagramIsLoading = TRUE /\ diagramError = "null" /\ diagramSvg = <<>>
  /\ effectDeps = <<>> /\ renders = <<>>
  /\ NoChunking /\ NoRow /\ NoClass /\ NoStream /\ NoPage /\ NoPost
  /\ NoRead /\ NoChat

NextDiagram ==
  \/ ChangeCode \/ SetViewMode \/ LoadSucceeds \/ LoadFails \/ RenderEffect
  \/ (\E k \in DOMAIN renders : RenderResolves(k))
  \/ Unmount \/ UnmountCleanup

SpecDiagram == InitDiagram /\ [][NextDiagram]_vars

\* React runs a pending effect, a pending import and a pending render come
\* to an end
SpecDiagramFair ==
  /\ SpecDiagram
  /\ WF_vars(RenderEffect)
  /\ WF_vars(LoadSucceeds \/ LoadFails)
  /\ WF_vars(\E k \in DOMAIN renders : RenderResolves(k))

(***************************************************************************)
(* Vocabulary of the properties.                                           *)
(***************************************************************************)
Done == pc = "done"

\* the calls of normalizeTable that accepted their block
Accepted == {k \in 1..Len(calls) : mode = "wholeTable" /\ calls[k].output # <<>>}

\* the lines of the table the k-th call emitted
OutLines(k) == split(calls[k].output, "\n")

\* the header of a block: its first row that is not a separator
HeaderOf(block) == SelectSeq(SelectSeq(trimAll(block), validRow), dataRow)[1]

\* a block with a row that is not a separator
HasHeader(block) == SelectSeq(SelectSeq(trimAll(block), validRow), dataRow) # <<>>

\* a block rejected because its header has no usable cell
ZeroCellHeader(block) ==
  /\ HasHeader(block)
  /\ countTableColumns(HeaderOf(block)) = 0

\* the non-blank lines of a text, trimmed, as text items
RECURSIVE TextItems(_)
TextItems(ls) ==
  IF ls = <<>> THEN <<>>
  ELSE (IF trim(Head(ls)) # <<>> THEN << <<"text", trim(Head(ls))>> >> ELSE <<>>)
       \o TextItems(Tail(ls))

\* the chunk list read in order: each text chunk as its non-blank lines, each
\* table or table-row chunk as one item
RECURSIVE ChunkItems(_)
ChunkItems(list) ==
  IF list = <<>> THEN <<>>
  ELSE (IF Head(list).type = "text"
          THEN TextItems(split(Head(list).content, "\n"))
          ELSE << <<Head(list).type, Head(list).content>> >>)
       \o ChunkItems(Tail(list))

\* what a collected block is expected to yield; a rejected block yields
\* nothing, or with fallback (a zero-cell header) its own lines as prose
BlockItems(block, fallback) ==
  IF block = <<>> THEN <<>>
  ELSE IF mode = "perRow"
    THEN [k \in 1..Len(parseAndFixTable(join(block, <<"\n">>))) |->
            <<"table-row", parseAndFixTable(join(block, <<"\n">>))[k]>>]
  ELSE IF normalizeTable(block) # <<>>
    THEN << <<"table", normalizeTable(block)>> >>
  ELSE IF fallback /\ ZeroCellHeader(block) THEN TextItems(block)
  ELSE <<>>

\* the input read in order: every non-blank line that was not collected into
\* a table as a text item, every collected block as what it yields
RECURSIVE InputItems(_, _, _)
InputItems(k, block, fallback) ==
  IF k >= Len(kind) THEN BlockItems(block, fallback)
  ELSE IF kind[k + 1] = "table"
    THEN InputItems(k + 1, Append(block, lines[k + 1]), fallback)
  ELSE BlockItems(block, fallback)
       \o TextItems(<<lines[k + 1]>>)
       \o InputItems(k + 1, <<>>, fallback)

ChunkTypes == [k \in 1..Len(chunks) |-> chunks[k].type]

\* prose lines, then two or more pipe lines, then prose lines
ProseTableProse(ls) ==
  \E a, b \in 1..Len(ls) :
    /\ a + 2 <= b /\ b < Len(ls)
    /\ \A k \in 1..a : ~includes(ls[k], "|") /\ trim(ls[k]) # <<>>
    /\ \A k \in (a + 1)..b : includes(ls[k], "|")
    /\ \A k \in (b + 1)..Len(ls) : ~includes(ls[k], "|") /\ trim(ls[k]) # <<>>

(***************************************************************************)
(* Properties of normalizeTable.                                           *)
(***************************************************************************)
\* C1: every accepted table has exactly one separator row, and it is the
\* second line, whatever separator rows the block had.
C1_OneSeparatorSecondLine ==
  \A k \in Accepted :
    {j \in 1..Len(OutLines(k)) : isTableSeparator(OutLines(k)[j])} = {2}

\* C2: every emitted row (header, separator, data rows) has exactly C cells
\* when parsed again with the cell-parsing rule, C being the header's column
\* count.
C2_EveryRowHasCCells ==
  \A k \in Accepted :
    \A j \in 1..Len(OutLines(k)) :
      Len(splitCells(OutLines(k)[j])) = countTableColumns(HeaderOf(calls[k].input))

\* C5: normalizing the lines of an accepted table again returns the same
\* table.
C5_Idempotent ==
  \A k \in Accepted : normalizeTable(OutLines(k)) = calls[k].output

\* C6: the column count is the header's cell count under the cell-parsing
\* rule, and the header is emitted with exactly those cells, neither merged
\* nor padded.
C6_HeaderCellCountAuthoritative ==
  \A k \in Accepted :
    /\ Len(splitCells(OutLines(k)[2])) = Len(splitCells(HeaderOf(calls[k].input)))
    /\ OutLines(k)[1] = rebuildRow(splitCells(HeaderOf(calls[k].input)))

(***************************************************************************)
(* Properties of normalizeTableRow (under SpecRow).                        *)
(***************************************************************************)
RowCells == splitCells(row)

\* C3: a row of n > C >= 1 cells loses no cell: the first C-1 cells are kept
\* in order and the others are joined with " | " into the last cell, so the
\* output row holds every input cell in the original order.
C3_MergeKeepsEveryCell ==
  (rowPc = "returned" /\ targetColumns >= 1 /\ Len(RowCells) > targetColumns) =>
    /\ rowResult =
         <<"|", " ">>
         \o join(Append(SubSeq(RowCells, 1, targetColumns - 1),
                        join(SubSeq(RowCells, targetColumns, Len(RowCells)),
                             <<" ", "|", " ">>)),
                 <<" ", "|", " ">>)
         \o <<" ", "|">>
    /\ rowResult = <<"|", " ">> \o join(RowCells, <<" ", "|", " ">>) \o <<" ", "|">>

\* a row of three non-empty cells was merged into two columns
C3_Witness ==
  /\ rowPc = "returned" /\ targetColumns = 2
  /\ Len(RowCells) = 3 /\ \A k \in 1..3 : RowCells[k] # <<>>

\* C4: a data row of n < C cells comes back with exactly C cells, the input
\* cells first and C-n empty cells after them; a row of n = C cells keeps its
\* cells.
C4_PadKeepsCells ==
  (rowPc = "returned" /\ includes(row, "|") /\ Len(RowCells) <= targetColumns) =>
    /\ Len(splitCells(rowResult)) = targetColumns
    /\ splitCells(rowResult) = RowCells \o fill(targetColumns - Len(RowCells), <<>>)

\* a row of one cell was padded to three columns
C4_Witness ==
  /\ rowPc = "returned" /\ targetColumns = 3 /\ includes(row, "|")
  /\ Len(RowCells) = 1 /\ RowCells[1] # <<>>

(***************************************************************************)
(* Properties of createStreamableChunks.                                   *)
(***************************************************************************)
\* C7: a block rejected for a header without usable cells falls back to
\* prose: its lines are emitted in place and in order as text, none is lost.
C7_RejectedBlockBecomesProse ==
  (Done /\ mode = "wholeTable") => ChunkItems(chunks) = InputItems(0, <<>>, TRUE)

\* C8: in whole-table mode every table block (here: every collected block
\* that has a header row) yields exactly one table chunk holding the whole
\* normalized table, and prose, a block of two or more pipe lines, prose
\* yields exactly text, table, text.
C8_OneChunkPerTable ==
  (Done /\ mode = "wholeTable") =>
    /\ Len(SelectSeq(ChunkTypes, LAMBDA t : t = "table"))
         = Cardinality({k \in 1..Len(calls) : HasHeader(calls[k].input)})
    /\ \A k \in 1..Len(chunks) :
         chunks[k].type = "table" =>
           \E j \in 1..Len(calls) : chunks[k].content = normalizeTable(calls[j].input)
    /\ ProseTableProse(lines) => ChunkTypes = <<"text", "table", "text">>

\* C9: the chunk list preserves input order: the text chunks hold every
\* non-blank line that is not part of a table exactly once and in order, and
\* every table chunk stands where its block stood between them.
C9_OrderPreserved ==
  Done => ChunkItems(chunks) = InputItems(0, <<>>, FALSE)

\* prose, an accepted table and prose again were chunked
C9_Witness ==
  /\ Done /\ mode = "wholeTable"
  /\ ChunkTypes = <<"text", "table", "text">>

\* C10: no chunk, of whatever type, has content that is empty after trimming.
C10_NoEmptyChunk ==
  \A k \in 1..Len(chunks) : trim(chunks[k].content) # <<>>

\* a call that rejected a block and kept blank lines out of its text chunks
C10_Witness ==
  /\ Done /\ Len(chunks) >= 2
  /\ \E k \in 1..Len(calls) : calls[k].output = <<>>
  /\ \E k \in 1..Len(lines) : trim(lines[k]) = <<>>

(***************************************************************************)
(* Properties of the per-row version.                                      *)
(***************************************************************************)
\* the calls of parseAndFixTable that accepted their block
AcceptedRows == {k \in 1..Len(calls) : mode = "perRow" /\ calls[k].output # <<>>}

\* C11: the table-row chunks of one block are the rebuilt header, then exactly
\* one separator row of C "---" cells, then the rebuilt data rows.
C11_PerRowSeparatorAfterHeader ==
  \A k \in AcceptedRows :
    /\ Len(calls[k].output) >= 2
    /\ calls[k].output[2] = createSeparatorRow(countColumns(calls[k].output[1]))
    /\ {j \in 1..Len(calls[k].output) : isSeparatorRow(calls[k].output[j])} = {2}

(***************************************************************************)
(* Properties of the separator tests.                                      *)
(***************************************************************************)
\* what the row classification rule says of a line: after trimming, only
\* pipe, hyphen, colon and whitespace characters, and at least one hyphen
SeparatorByRule(ln) == onlyTableChars(trim(ln)) /\ includes(ln, "-")

\* C12: a pipe-containing line is classified as a separator row exactly when,
\* trimmed, it is made of pipes, hyphens, colons and whitespace only and has
\* a hyphen, with or without a leading pipe; by both tests.
C12_SeparatorIffTableCharsWithHyphen ==
  (rowPc = "classified" /\ includes(row, "|")) =>
     /\ tableSeparator = SeparatorByRule(row)
     /\ separatorRow = SeparatorByRule(row)

(***************************************************************************)
(* Properties of the table boundary detection (whole-table version).       *)
(***************************************************************************)
\* line p (1-based) has been read, and was met outside a table
MetOutsideTable(p) ==
  /\ mode = "wholeTable" /\ p \in 1..Len(kind)
  /\ (p = 1 \/ kind[p - 1] = "text")

\* the lines after line p that the look-ahead may read: the next 4
Following(p) == (p + 1)..(IF p + 4 < Len(lines) THEN p + 4 ELSE Len(lines))

\* C13, as stated: outside a table, a pipe-containing line starts a table
\* region whenever another pipe-containing line is among the next 4 lines,
\* whatever lies between.
C13_AnyPipeLineWithin4Starts ==
  \A p \in 1..Len(kind) :
    ( /\ MetOutsideTable(p)
      /\ includes(lines[p], "|")
      /\ \E q \in Following(p) : includes(lines[q], "|") )
    => kind[p] = "table"

\* C13, amended: outside a table, a table-row line (a pipe, and more than 2
\* characters once trimmed) starts a table region whenever another table-row
\* line is among the next 4 lines and every line between the two is blank.
C13_TableRowWithin4OverBlanksStarts ==
  \A p \in 1..Len(kind) :
    ( /\ MetOutsideTable(p)
      /\ isTableRow(lines[p])
      /\ \E q \in Following(p) :
            /\ isTableRow(lines[q])
            /\ \A r \in (p + 1)..(q - 1) : trim(lines[r]) = <<>> )
    => kind[p] = "table"

\* a table was started by a row whose next row is 4 lines further, over
\* three blank lines
C13_Witness ==
  \E p \in 1..Len(kind) :
    /\ MetOutsideTable(p) /\ isTableRow(lines[p]) /\ kind[p] = "table"
    /\ p + 4 <= Len(lines) /\ isTableRow(lines[p + 4])
    /\ \A r \in (p + 1)..(p + 3) : trim(lines[r]) = <<>>

\* the text lines around line p: from the line after the last table line
\* before p to the line before the next table line
RunStart(p) == MaxOf({0} \cup {a \in 1..p : kind[a] = "table"}) + 1
RunEnd(p) == MinOf({Len(lines) + 1} \cup {b \in p..Len(kind) : kind[b] = "table"}) - 1

\* C14: a pipe-containing line met outside a table, with no pipe-containing
\* line among the next 4 lines, is never collected into a table; when the
\* function returns it stands, at its place among its neighbouring prose
\* lines, in a text chunk (whose content is those lines joined by newlines,
\* trimmed as a whole).
C14_LonePipeLineStaysInText ==
  \A p \in 1..Len(kind) :
    ( /\ MetOutsideTable(p)
      /\ includes(lines[p], "|")
      /\ \A q \in Following(p) : ~includes(lines[q], "|") )
    => /\ kind[p] = "text"
       /\ Done =>
            \E c \in 1..Len(chunks) :
              /\ chunks[c].type = "text"
              /\ chunks[c].content =
                   trim(join(SubSeq(lines, RunStart(p), RunEnd(p)), <<"\n">>))

\* a table row between two prose lines, with no pipe in the lines after it,
\* was kept in a text chunk
C14_Witness ==
  /\ Done
  /\ \E p \in 2..(Len(lines) - 1) :
       /\ MetOutsideTable(p) /\ isTableRow(lines[p])
       /\ \A q \in Following(p) : ~includes(lines[q], "|")
       /\ trim(lines[p - 1]) # <<>> /\ trim(lines[p + 1]) # <<>>
       /\ kind[p] = "text"
       /\ \E c \in 1..Len(chunks) :
            /\ chunks[c].type = "text"
            /\ chunks[c].content =
                 trim(join(SubSeq(lines, RunStart(p), RunEnd(p)), <<"\n">>))

(***************************************************************************)
(* Properties of the end of createStreamableChunks (whole-table version).  *)
(***************************************************************************)
\* C15: at end of input whatever is open is flushed: a table still being
\* collected (here: one with a header row) is normalized and emitted as a
\* table chunk, and trailing prose is emitted as the final text chunk.
C15_OpenTableAndProseFlushed ==
  (Done /\ mode = "wholeTable") =>
    /\ (inTable /\ HasHeader(currentTableLines)) =>
         \E c \in 1..Len(chunks) :
           /\ chunks[c].type = "table"
           /\ chunks[c].content = normalizeTable(currentTableLines)
           /\ c >= Len(chunks) - 1
    /\ trim(currentTextChunk) # <<>> =>
         /\ Len(chunks) > 0
         /\ chunks[Len(chunks)] = [type |-> "text", content |-> trim(currentTextChunk)]

\* the value returned is a list of chunks
ChunkList ==
  \A c \in 1..Len(chunks) :
    /\ chunks[c].type \in {"text", "table", "table-row"}
    /\ chunks[c].content \in Seq(STRING)

\* the call can take a step: the loop has a line to read (every line falls in
\* one branch of the if chain), or the loop is over and the final flush runs
CanStep ==
  \/ InLoop("wholeTable") \/ InLoop("perRow")
  \/ (pc = "loop" /\ i = Len(lines))

Deltas == SelectSeq(enqueued, LAMBDA e : e.type = "text-delta")

\* the text delivered to the client: the payloads, concatenated in order
RECURSIVE Concat(_)
Concat(events) ==
  IF events = <<>> THEN <<>> ELSE Head(events).textDelta \o Concat(Tail(events))

Delivered == Concat(Deltas)

IsTableChunk(c) == c.type \in {"table", "table-row"}

\* C17: in the delivered text consecutive rows of one table are separated by
\* exactly one newline (the rows inside a table chunk; a table-row chunk
\* followed by a table-row chunk), and a table and a neighbouring prose chunk
\* are separated by a blank line, before and after the table.
C17_RowsByNewlineBlocksByBlankLine ==
  (streamState # "idle") =>
    \A k \in 1..Len(Deltas) :
      /\ k <= Len(chunks)
      /\ chunks[k].type = "table" =>
           \A r \in 1..Len(split(chunks[k].content, "\n")) :
             includes(split(chunks[k].content, "\n")[r], "|")
      /\ k < Len(chunks) =>
           /\ (chunks[k].type = "table-row" /\ chunks[k + 1].type = "table-row")
                => Deltas[k].textDelta = chunks[k].content \o <<"\n">>
           /\ (IsTableChunk(chunks[k]) # IsTableChunk(chunks[k + 1]))
                => Deltas[k].textDelta = chunks[k].content \o <<"\n", "\n">>

\* prose, a table and prose were delivered to the end
C17_Witness ==
  /\ streamState = "closed"
  /\ \E k \in 2..(Len(chunks) - 1) :
       /\ chunks[k - 1].type = "text"
       /\ IsTableChunk(chunks[k])
       /\ chunks[k + 1].type = "text" \/ (k + 2 <= Len(chunks) /\ chunks[k + 2].type = "text")
       /\ Len(Deltas) = Len(chunks)

\* C18: when the client disconnects while chunks remain unsent, delivery
\* simply stops: after the cancellation nothing more is enqueued and no timer
\* step fails on the cancelled stream.
C18_CancelStopsDeliveryQuietly ==
  (streamState = "cancelled" /\ chunkIndex < Len(chunks)) =>
    /\ ~timerFailed
    /\ Len(enqueued) = chunkIndex

\* the events of the whole response of a chunk list: one text-delta per chunk
\* and the finish event
Carries(e, chunk) ==
  /\ e.type = "text-delta"
  /\ Len(e.textDelta) >= Len(chunk.content)
  /\ SubSeq(e.textDelta, 1, Len(chunk.content)) = chunk.content
  /\ \A j \in (Len(chunk.content) + 1)..Len(e.textDelta) : e.textDelta[j] = "\n"

InOrderSoFar ==
  /\ Len(enqueued) <= Len(chunks) + 1
  /\ \A k \in 1..Len(enqueued) :
       IF k <= Len(chunks) THEN Carries(enqueued[k], chunks[k])
                           ELSE enqueued[k] = [type |-> "finish"]
  /\ (streamState = "closed") <=> (Len(enqueued) = Len(chunks) + 1)

\* C19, as stated: the stream carries one text-delta event per chunk, the
\* i-th with the content of the i-th chunk (and the newlines after it), then
\* exactly one finish event; it is then closed and nothing is enqueued after
\* the close; and the finish and the close are eventually reached.
C19_AllEventsThenFinishAlways ==
  /\ [](streamState # "idle" => InOrderSoFar)
  /\ <>(streamState = "closed")

\* C19, amended: the same, and the finish and the close are eventually
\* reached unless the client cancels the stream first.
C19_AllEventsThenFinishUnlessCancelled ==
  /\ [](streamState # "idle" => InOrderSoFar)
  /\ <>(streamState \in {"closed", "cancelled"})

\* a list of two or more chunks was delivered to the end and the stream closed
C19_Witness ==
  /\ streamState = "closed"
  /\ Len(chunks) >= 2 /\ chunks[1] # chunks[2]
  /\ Len(Deltas) = Len(chunks)
  /\ enqueued[Len(enqueued)] = [type |-> "finish"]

(***************************************************************************)
(* Properties of the chat page.                                            *)
(***************************************************************************)
\* the input is over the limit, or empty once trimmed
OverLimitOrBlank ==
  inputLength(input) > MAX_INPUT_CHARS \/ trimInput(input) = <<>>

\* C20: the page enforces the input limit: a call of handleSubmit with an
\* input longer than MAX_INPUT_CHARS, or empty or only whitespace, sends no
\* request and leaves messages, isLoading and error unchanged.
C20_NoRequestOverLimitOrBlank ==
  [][(submits' = submits + 1 /\ OverLimitOrBlank)
       => UNCHANGED <<requests, messages, isLoading, error>>]_vars

(***************************************************************************)
(* Properties of POST.                                                     *)
(***************************************************************************)
\* the lines of a text, each trimmed
TrimmedLines(t) == {trim(split(t, "\n")[k]) : k \in 1..Len(split(t, "\n"))}

\* C21: cleanResponseText breaks no table line: every line of the response
\* that contains a pipe (and whose response needed no fallback) is, trimmed,
\* still one line of the cleaned text.
C21_CleanupKeepsPipeLines ==
  (postPc = "cleaned") =>
    \A ln \in TrimmedLines(aiResponse) :
      includes(ln, "|") => ln \in TrimmedLines(cleanedResponse)

\* C28: every response stream delivers, before the finish event, at least one
\* text-delta event with non-empty text, whatever the worker's response was.
C28_SomeTextBeforeFinish ==
  (postPc = "cleaned" /\ streamState = "closed") =>
    \E k \in 1..Len(enqueued) :
      /\ enqueued[k].type = "text-delta"
      /\ enqueued[k].textDelta # <<>>

(***************************************************************************)
(* Properties of the table collection (whole-table version).               *)
(***************************************************************************)
\* line p has been read while a table was being collected
MetInsideTable(p) ==
  /\ mode = "wholeTable" /\ p \in 2..Len(kind)
  /\ kind[p - 1] = "table"

\* the first line of the block that line p belongs to
BlockStart(p) ==
  MaxOf({a \in 1..p : kind[a] = "table" /\ (a = 1 \/ kind[a - 1] = "text")})

RowsByRule(block) == SelectSeq(trimAll(block), LAMBDA r : ~SeparatorByRule(r))

\* C23: normalizeTable keeps every non-separator row of the block exactly
\* once and in order: the output is the rebuilt header, the separator, then
\* the rebuilt remaining rows, one line more than the non-separator rows.
C23_EveryDataRowOnceInOrder ==
  \A k \in Accepted :
    /\ RowsByRule(calls[k].input) # <<>>
    /\ Len(OutLines(k)) = Len(RowsByRule(calls[k].input)) + 1
    /\ OutLines(k) =
         << normalizeTableRow(RowsByRule(calls[k].input)[1],
                              countTableColumns(RowsByRule(calls[k].input)[1])),
            createTableSeparator(countTableColumns(RowsByRule(calls[k].input)[1])) >>
         \o [j \in 1..(Len(RowsByRule(calls[k].input)) - 1) |->
               normalizeTableRow(RowsByRule(calls[k].input)[j + 1],
                                 countTableColumns(RowsByRule(calls[k].input)[1]))]

(***************************************************************************)
(* Properties of the read loop.                                            *)
(***************************************************************************)
IsPrefix(a, b) == Len(a) <= Len(b) /\ SubSeq(b, 1, Len(a)) = a

\* C24: however the response is split into reads, the content accumulated
\* when the stream ends is the concatenation, in order, of the payloads of
\* all text-delta events sent; until then it is a beginning of it.
C24_ContentIsConcatenation ==
  /\ readPc = "reading" => IsPrefix(accumulatedContent, Delivered)
  /\ readPc = "done" => accumulatedContent = Delivered

\* the stream of two chunks, one with a quote, a backslash and a newline, has
\* been read to its end
C24_Witness ==
  /\ readPc = "done"
  /\ Len(Deltas) = 2
  /\ \E k \in 1..2 : includes(chunks[k].content, "\\")
  /\ includes(accumulatedContent, "\\")

(***************************************************************************)
(* Properties of the requests of the chat page.                            *)
(***************************************************************************)
\* the request has not completed, failed or been aborted
InFlight(r) == reqs[r].at \in {"fetch", "read"} /\ ~reqs[r].aborted

\* the request is over: its finally block has run
Over(r) == reqs[r].at \in {"ended", "failed", "aborted"}

\* the placeholder the call created is in the list
IsPlaceholderOf(msg, r) == msg.call = r /\ msg.role = "assistant"

\* C25: while a request is in flight, isLoading is true and
\* abortControllerRef holds the controller of that request, so that at most
\* one request is in flight; also when handleSubmit is called twice before
\* the component renders again.
C25_InFlightIsLoadingAndHeld ==
  \A r \in DOMAIN reqs : InFlight(r) => isLoading /\ abortControllerRef = r

\* C26: a request that fails, not by abort, removes its placeholder and
\* nothing else from the messages, sets the error and sets isLoading to
\* false.
C26_FailureRemovesOnlyThePlaceholder ==
  [][\A r \in DOMAIN reqs :
       (reqs[r].at # "failed" /\ reqs'[r].at = "failed")
         => /\ messages' = SelectSeq(messages, LAMBDA msg : ~IsPlaceholderOf(msg, r))
            /\ error' = "failed"
            /\ isLoading' = FALSE]_vars

\* C27: once a request is over (its stream has ended, it has failed or it
\* was aborted), no assistant message it created is left streaming, and
\* isLoading is false when every request is over.
C27_NoStreamingMessageOfEndedRequest ==
  /\ \A r \in DOMAIN reqs :
       Over(r) => \A k \in DOMAIN messages :
                    ~(IsPlaceholderOf(messages[k], r) /\ messages[k].isStreaming)
  /\ (\A r \in DOMAIN reqs : Over(r)) => ~isLoading

(***************************************************************************)
(* Properties of MermaidDiagram.                                           *)
(***************************************************************************)
\* the render was started for the code and the view mode of now, and none
\* was started after it
IsCurrentRender(k) ==
  /\ k = Len(renders)
  /\ renders[k].code = code
  /\ viewMode = "visual"

\* C29: svg variant: a render that has been superseded by a change of code
\* or viewMode, or by the unmount, never sets diagramSvg, error or isLoading:
\* only the render started for the current code and viewMode does.
C29_OnlyCurrentRenderSetsState ==
  [][\A k \in DOMAIN renders :
       ( /\ variant = "svg"
         /\ renders[k].at = "pending" /\ renders'[k].at = "done"
         /\ <<diagramSvg', diagramError', diagramIsLoading'>>
              # <<diagramSvg, diagramError, diagramIsLoading>> )
         => IsCurrentRender(k) /\ mounted]_vars

\* C29, amended: svg variant: once the cleanup of its effect has run (React
\* runs it, after the commit of the change or the unmount, before the effect
\* for the new code and viewMode), a render never sets diagramSvg, error or
\* isLoading: only the render started last, and not cancelled, does.
C29_CancelledRenderSetsNothing ==
  [][\A k \in DOMAIN renders :
       ( /\ variant = "svg"
         /\ renders[k].at = "pending" /\ renders'[k].at = "done"
         /\ <<diagramSvg', diagramError', diagramIsLoading'>>
              # <<diagramSvg, diagramError, diagramIsLoading>> )
         => k = Len(renders) /\ ~renders[k].cancelled /\ mounted]_vars

\* a render of a code that parses has come to its end after the code had
\* changed and the cleanup had run: diagramSvg was never set
C29_Witness ==
  /\ variant = "svg" /\ mounted
  /\ \E k \in DOMAIN renders :
       /\ renders[k].at = "done" /\ parses(renders[k].code)
       /\ k < Len(renders)
  /\ diagramSvg = <<>>

\* C30: ref variant: in visual mode, once the mermaid library has loaded,
\* the component leaves the loading state: isLoading becomes false.
C30_LoadedLeavesLoading ==
  (variant = "ref" /\ mounted /\ mermaidLoaded /\ viewMode = "visual")
    ~> (~diagramIsLoading \/ ~mounted \/ viewMode # "visual")

=============================================================================
